---------------------------- MODULE Spec2Model ----------------------------
(***************************************************************************)
(* Model of go.pact.im/x/httpserver: the abort gate (abortableHandler),    *)
(* the fail-fast wrapper (exitOnPanicHandler), the optional-TLS sniffing   *)
(* acceptor, the once-close listener wrappers, the H2C coordinator and the *)
(* Server.Run orchestration with its per-socket runners, the gRPC         *)
(* multiplexer and the ConnState hooks; and quoteSingle of                 *)
(* go.pact.im/x/jsonsumtype/codegen.                                       *)
(*                                                                         *)
(* Specifications:                                                         *)
(*   Spec        Server.Run with the calls of the composed handler, the    *)
(*               connection counter, h2cHandler.Shutdown and Stop; the     *)
(*               group of runners (process.Parallel) is taken as one call  *)
(*   SpecRunners the runners serveH1H2.Run / serveH3.Run step by step,     *)
(*               with the ready callback and the two sync.Once guards      *)
(*   SpecGate    the composed handler exitOnPanicHandler(abortableHandler) *)
(*               called by engine tasks, racing with Stop                  *)
(*   SpecSniff   tlsAcceptor.sniff and the reads of bufferedConn           *)
(*   SpecClose   onceCloseListener / onceCloseEarlyListener under          *)
(*               concurrent Close calls                                    *)
(*   SpecH2C     h2cHandler: prior-knowledge upgrade, tracking, Shutdown   *)
(*   SpecH1      serveH1H2.Run step by step with the connections of the    *)
(*               HTTP/1 engine: Accept, ConnState reports, Shutdown, Close *)
(*   SpecErr     one runner's Run (serveH1H2.Run or serveH3.Run) with its  *)
(*               serve goroutine and the values of its errors              *)
(*   SpecMux     one call of the handler returned by GRPC(h, g)            *)
(*   SpecQuote   one call of quoteSingle of the jsonsumtype code generator *)
(*   SpecHooks   the ConnState hooks of the HTTP/1 and HTTP/2 engines      *)
(*   SpecH2CFair SpecH2C under fair scheduling (termination of Shutdown)   *)
(*   SpecProto   the TLSNextProto table built by Server.Run                *)
(*   SpecRead    rwConn.Read after a prior-knowledge upgrade               *)
(*   SpecWrite   rwConn.Write: buffered write followed by Flush            *)
(*   SpecTLS     the TLS / OptionalTLS socket constructors and Listen      *)
(*   SpecTrack   the tracking set of h2cHandler under arbitrary calls of   *)
(*               addPending, setTracked and removeConn                     *)
(***************************************************************************)
EXTENDS Integers, Sequences, FiniteSets, TLC

\* Number of engine tasks that invoke the composed handler.
NumTasks == 2

Tasks == 1..NumTasks

VARIABLES
    \* ---- abortableHandler (h2c.go:333-339) ----
    mu,         \* abortableHandler.mu: 0 (free), the task holding it, or -1 (Stop)
    wg,         \* abortableHandler.wg: the in-flight counter
    stopped,    \* abortableHandler.stopped
    \* ---- one ServeHTTP call per task through the composed handler ----
    tpc,        \* position of task t inside the composed handler
    tstopped,   \* the local copy `stopped := h.stopped` of task t
    tpanic,     \* the panic value task t is unwinding with ("none" if none)
    \* ---- Stop() ----
    stopPc,     \* position of the (single) Stop call
    \* ---- the process ----
    exited,     \* os.Exit was called
    exitCode,   \* the code it was called with
    \* ---- optional-TLS acceptor: one accepted connection (tls.go) ----
    sentBytes,  \* the bytes the client has sent so far, in order
    wire,       \* bytes received by the socket and not yet read from it
    peerClosed, \* the client closed its side of the connection
    sniffPc,    \* "listening", "peeking" (inside sniff) or "returned"
    deadline,   \* a read deadline is set on the raw connection
    brBuf,      \* bufferedConn.br: the bytes buffered by the bufio.Reader
    peekErr,    \* br.Peek(1) returned an error
    isTLS,      \* sniff returned tls.Server(bc, ...) rather than bc
    got,        \* the bytes read so far from bc (bufferedConn.Read)
    \* ---- onceCloseListener / onceCloseEarlyListener (h1h2.go, h3.go) ----
    onceDone,   \* per wrapper: sync.Once has run its function
    onceM,      \* per wrapper: holder of the sync.Once mutex (0 if free)
    lerr,       \* per wrapper: the err field
    nClose,     \* per wrapper: calls made to the underlying Close
    underRes,   \* per wrapper: results of the underlying Close calls, in order
    cpc,        \* per caller: position inside Close
    cln,        \* per caller: the wrapper it calls Close on
    cres,       \* per caller: the value Close returned
    \* ---- h2cHandler (h2c.go:75-88) ----
    conns,      \* h.conns: per connection "absent", "pending" (false) or "tracked" (true)
    trackWG,    \* h.trackWG
    serveWG,    \* h.serveWG
    connsMu,    \* h.connsMu: 0 (free) or -1 (held by closeConns)
    hpc,        \* per connection: position of its h2cHandler.ServeHTTP call
    hreq,       \* per connection: the request ServeHTTP was called with
    herr,       \* per connection: the error of initH2CWithPriorKnowledge
    rawConn,    \* per connection: the hijacked net.Conn: "none", "open" or "closed"
    filled,     \* per connection: the placeholder rwConn has been filled in
    fbReq,      \* per connection: the request handed to the fallback handler
    hbuf,       \* per connection: buf[:n], the bytes io.ReadFull delivered
    shPc,       \* position of the h2cHandler.Shutdown call
    watcher,    \* the goroutine Shutdown starts: "none", "waiting", "closing", "done"
    doneClosed, \* Shutdown's done channel is closed
    toClose,    \* closeConns: entries of h.conns its loop has still to close
    nHooks,     \* times h.h1.Shutdown ran the HTTP/1 engine's OnShutdown hooks
    \* ---- the context handed to Server.Run ----
    ctxDone,    \* ctx is cancelled or past its deadline
    \* ---- Server.Run and its runners (server.go, h1h2.go, h3.go) ----
    runPc,      \* position of Server.Run
    cleartext,  \* s.h2.Cleartext
    rpc,        \* per runner: position of serveH1H2.Run / serveH3.Run
    listenErr,  \* per runner: the error of Listen / quic.ListenEarly ("none" if none)
    lnState,    \* per runner: its listener wrapper: "none", "open", "closed"
    pcState,    \* per QUIC runner: its packet socket: "none", "open", "closed"
    serve,      \* per runner: its serve goroutine: "none", "running", "sent"
    fgDone,     \* per runner: fgctx is cancelled
    cb,         \* the ready callback: "notcalled", "running", "returned"
    groupStop,  \* process.Parallel is stopping its units
    once,       \* per family: the shared sync.Once: "fresh", "running", "done"
    nShutdown,  \* per family: times the family's shutdown sequence was started
    h1InShutdown, \* the HTTP/1 engine was told to shut down or close
    h3Closed,   \* the HTTP/3 engine was shut down
    connWG,     \* s.connWG: connections reported new, not yet hijacked or closed
    tsync,      \* per task: the call is made by an HTTP/1 connection's goroutine
    \* ---- the HTTP/1 engine as the TCP runners drive it (h1h2.go) ----
    cstate,     \* per connection of the engine: its state (see H1ConnStates)
    pend,       \* per runner: the connection its serve loop has accepted and
                \* not yet reported as new (0 if none)
    h1sh,       \* position of s.h.Shutdown(ctx) of the HTTP/1 engine
    nForce,     \* per runner: times it called s.h.Close() after Do
    \* ---- the error values of a runner's Run (h1h2.go, h3.go) ----
    cbErr,      \* per runner: callbackError ("unset" until callback returns)
    serveErr,   \* per runner: the error of Serve / ServeListener ("unset"
                \* until it returns)
    closeErr,   \* per runner: the err field of its listener wrapper ("unset"
                \* until the first Close)
    pcErr,      \* per QUIC runner: closePacketConnError ("unset" until pc.Close())
    engErr,     \* per runner: the errors its Shutdown / Close calls on the
                \* engine returned
    ret,        \* per runner: the errors in the value Run returned (<<>> is nil)
    \* ---- grpcMux: one ServeHTTP call (GRPC(h, g)) ----
    gmPc,       \* position of the call: "idle", "h", "g" or "returned"
    gmReq,      \* the request of the call
    hCalls,     \* calls made to m.h.ServeHTTP
    gCalls,     \* calls made to m.g.ServeHTTP
    \* ---- quoteSingle: one call (jsonsumtype/codegen/templates.go) ----
    qsPc,       \* "idle", "scanned" (after the first loop), "returned", "panicked"
    qsIn,       \* the argument s
    qsBuf,      \* buf, the bytes of strconv.AppendQuote(nil, s)
    qsDelta,    \* delta after the first loop
    qsChanged,  \* changed after the first loop
    qsOut,      \* the string returned
    \* ---- the ConnState hooks of the two engines ----
    hkUser,     \* s.h1.ConnState, the user's hook: "unset" before Run builds
                \* the engines, then "nil" or "set"
    hkH1,       \* h1.ConnState: the hooks it calls, in order (<<>> is nil)
    hkBase,     \* h2c.baseConfig.ConnState: the hooks it calls, in order
    hkConn,     \* per connection: the last state the HTTP/1 engine reported
    hkH2,       \* per connection: the last state the HTTP/2 engine reported
    hkFrom,     \* the engine that sent the last notification
    hkCalls,    \* the hooks the last notification called, in order
    hkWG,       \* s.connWG
    hkTracked,  \* per connection: setTracked was called for it
    hkN,        \* notifications sent so far
    \* ---- the TLS next-protocol table of the HTTP/1 engine (server.go) ----
    tpPc,       \* position of Server.Run: "idle", "built", "configured",
                \* "copying", "done"
    tpUserNil,  \* s.h1.TLSNextProto is nil
    tpUser,     \* s.h1.TLSNextProto: per protocol name its entry ("absent" if none)
    tpUser0,    \* the entries of s.h1.TLSNextProto when Run was called
    tpNil,      \* h1.TLSNextProto is nil
    tpTable,    \* h1.TLSNextProto: per protocol name its entry
    tpMM,       \* the local map mm of Run
    tpLeft,     \* keys the range loop over s.h1.TLSNextProto has yet to visit
    \* ---- rwConn.Read on one upgraded connection (h2c.go:287-306) ----
    rdPc,       \* "idle" before the upgrade, then "open"
    rdRest,     \* the bytes the client sends after the six-byte preface tail
    rdClosed,   \* the client has closed its side after sending them
    rdBuf,      \* rw.Reader: the bytes its buffer holds
    rdWire,     \* bytes of rdRest the raw connection has not yet delivered
    rdReaders,  \* the readers left in the io.MultiReader, in order
    rdPos,      \* bytes read from strings.NewReader(http2.ClientPreface)
    rdGot,      \* the bytes the Read calls have returned, in order
    rdRet,      \* the result <<n, err>> of the last Read
    \* ---- rwConn.Write on one upgraded connection (h2c.go:308-315) ----
    wrPc,       \* "idle" before the upgrade, then "open"
    wrW,        \* rw.Writer: its buffer (buf), its sticky error (err)
    wrOut,      \* the bytes written to the raw connection, in order
    wrBroken,   \* writes to the raw connection fail
    wrAll,      \* the arguments of the Write calls so far, concatenated
    wrOk,       \* every Write so far returned a nil error
    wrRet,      \* the result <<n, err>> of the last Write
    \* ---- TLS / OptionalTLS: one socket (tls.go:22-77) ----
    tlPc,       \* "idle", "built" (the constructor returned), "listening", "failed"
    tlCaller,   \* the tls.Config object of the caller
    tlCaller0,  \* its fields when the constructor was called
    tlClone,    \* the object c.Clone() made (meaningful once tlCloned)
    tlCloned,   \* c.Clone() was called
    tlUses,     \* tlsListener.TLSConfig points to: "none", "caller", "clone"
    tlOptional, \* tlsListener.Optional
    tlTimeout,  \* tlsListener.Timeout, in milliseconds
    tlLn,       \* the listener Listen returned: "none", "tls" or "acceptor",
                \* and the object its configuration points to
    \* ---- calls of addPending, setTracked, removeConn (h2c.go:126-173) ----
    trkLog      \* the calls made so far, in order: <<method, connection>>

gateVars == <<mu, wg, stopped, tpc, tstopped, tpanic, stopPc>>
procVars == <<exited, exitCode>>
sniffVars == <<sentBytes, wire, peerClosed, sniffPc, deadline, brBuf, peekErr,
               isTLS, got>>
closeVars == <<onceDone, onceM, lerr, nClose, underRes, cpc, cln, cres>>

h2cVars == <<conns, trackWG, serveWG, connsMu, hpc, hreq, herr, rawConn, filled,
             fbReq, hbuf>>
h2cShutVars == <<shPc, watcher, doneClosed, toClose, nHooks>>
ctxVars == <<ctxDone>>
runnerVars == <<rpc, listenErr, lnState, pcState, serve, fgDone, cb, groupStop,
                once, nShutdown, h1InShutdown, h3Closed>>
h1Vars == <<cstate, pend, h1sh, nForce>>
errVars == <<cbErr, serveErr, closeErr, pcErr, engErr, ret>>
muxVars == <<gmPc, gmReq, hCalls, gCalls>>
\* (the components that share nothing with the server's run)
quoteVars == <<qsPc, qsIn, qsBuf, qsDelta, qsChanged, qsOut>>
hookVars == <<hkUser, hkH1, hkBase, hkConn, hkH2, hkFrom, hkCalls, hkWG, hkTracked,
              hkN>>
protoVars == <<tpPc, tpUserNil, tpUser, tpUser0, tpNil, tpTable, tpMM, tpLeft>>
readVars == <<rdPc, rdRest, rdClosed, rdBuf, rdWire, rdReaders, rdPos, rdGot, rdRet>>
writeVars == <<wrPc, wrW, wrOut, wrBroken, wrAll, wrOk, wrRet>>
tlsVars == <<tlPc, tlCaller, tlCaller0, tlClone, tlCloned, tlUses, tlOptional,
            tlTimeout, tlLn>>
trkVars == <<trkLog>>
moreVars == <<protoVars, readVars, writeVars, tlsVars, trkVars>>
aloneVars == <<muxVars, quoteVars, hookVars, moreVars>>
runVars == <<runPc, cleartext, runnerVars, connWG, tsync, h1Vars, errVars>>

vars == <<gateVars, procVars, sniffVars, closeVars, h2cVars, h2cShutVars, ctxVars,
          runVars, aloneVars>>

\* What an action of one component leaves alone.
notAlone == <<gateVars, procVars, sniffVars, closeVars, h2cVars, h2cShutVars, ctxVars,
              runVars, moreVars>>
notMore == <<gateVars, procVars, sniffVars, closeVars, h2cVars, h2cShutVars, ctxVars,
             runVars, muxVars, quoteVars, hookVars>>
notProto == <<notMore, readVars, writeVars, tlsVars, trkVars>>
notRead == <<notMore, protoVars, writeVars, tlsVars, trkVars>>
notWrite == <<notMore, protoVars, readVars, tlsVars, trkVars>>
notTLS == <<notMore, protoVars, readVars, writeVars, trkVars>>
\* (a call of a method of the tracking set, made on its own)
notTrack == <<gateVars, procVars, sniffVars, closeVars, h2cShutVars, ctxVars, runVars,
              muxVars, quoteVars, hookVars, protoVars, readVars, writeVars, tlsVars,
              connsMu, hpc, hreq, herr, rawConn, filled, fbReq, hbuf>>
notGate == <<sniffVars, aloneVars, closeVars, h2cVars, h2cShutVars, ctxVars, runVars>>
notSniff == <<gateVars, procVars, closeVars, h2cVars, h2cShutVars, ctxVars, runVars,
              aloneVars>>
notClose == <<gateVars, procVars, sniffVars, aloneVars, h2cVars, h2cShutVars, ctxVars, runVars>>
\* (an action of a connection's handler call, of Shutdown)
notH2C == <<gateVars, procVars, sniffVars, aloneVars, closeVars, h2cShutVars, ctxVars, runVars>>
notH2CShut == <<gateVars, sniffVars, aloneVars, closeVars, ctxVars, runVars>>
\* (an action of a runner or of Server.Run)
notRun == <<procVars, sniffVars, aloneVars, closeVars, h2cVars, h1Vars, errVars>>

\* Panic values a handler can end with: none (normal return),
\* http.ErrAbortHandler, or any other (non-nil) value.
PanicValues == {"none", "abort", "other"}

TaskPcs == {"idle", "wrap", "locked", "read", "added", "checked", "inner",
            "recover", "returned", "aborted", "exit"}

StopPcs == {"idle", "called", "locked", "set", "waiting", "returned"}

GateInit ==
    /\ mu = 0
    /\ wg = 0
    /\ stopped = FALSE
    /\ tpc = [t \in Tasks |-> "idle"]
    /\ tstopped = [t \in Tasks |-> FALSE]
    /\ tpanic = [t \in Tasks |-> "none"]
    /\ stopPc = "idle"

ProcInit ==
    /\ exited = FALSE
    /\ exitCode = 0

-----------------------------------------------------------------------------
(* The composed handler: exitOnPanicHandler(abortableHandler(user handler)) *)

\* An engine (HTTP/1 connection goroutine, HTTP/2 handler goroutine, HTTP/3
\* stream goroutine) calls the composed handler: the closure of
\* exitOnPanicHandler registers its deferred exitOnPanic and calls
\* abortableHandler.ServeHTTP.
CallWrapper(t) ==
    /\ ~exited
    /\ tpc[t] = "idle"
    /\ tpc' = [tpc EXCEPT ![t] = "wrap"]
    /\ UNCHANGED <<mu, wg, stopped, tstopped, tpanic, stopPc, procVars>>

\* The call, made by any engine at any time.
EngineCall(t) ==
    /\ CallWrapper(t)
    /\ UNCHANGED notGate

\* Mutant of GateLock: the lock excludes nobody (the mutex is missing).
GateLockNoExclusion(t) ==
    /\ ~exited
    /\ tpc[t] = "wrap"
    /\ tpc' = [tpc EXCEPT ![t] = "locked"]
    /\ UNCHANGED <<mu, wg, stopped, tstopped, tpanic, stopPc, procVars, notGate>>

\* h.mu.Lock()
GateLock(t) ==
    /\ ~exited
    /\ tpc[t] = "wrap"
    /\ mu = 0
    /\ mu' = t
    /\ tpc' = [tpc EXCEPT ![t] = "locked"]
    /\ UNCHANGED <<wg, stopped, tstopped, tpanic, stopPc, procVars, notGate>>

\* stopped := h.stopped
GateRead(t) ==
    /\ ~exited
    /\ tpc[t] = "locked"
    /\ tstopped' = [tstopped EXCEPT ![t] = stopped]
    /\ tpc' = [tpc EXCEPT ![t] = "read"]
    /\ UNCHANGED <<mu, wg, stopped, tpanic, stopPc, procVars, notGate>>

\* if !stopped { h.wg.Add(1) }
GateAdd(t) ==
    /\ ~exited
    /\ tpc[t] = "read"
    /\ wg' = IF tstopped[t] THEN wg ELSE wg + 1
    /\ tpc' = [tpc EXCEPT ![t] = "added"]
    /\ UNCHANGED <<mu, stopped, tstopped, tpanic, stopPc, procVars, notGate>>

\* h.mu.Unlock()
GateUnlock(t) ==
    /\ ~exited
    /\ tpc[t] = "added"
    /\ mu' = 0
    /\ tpc' = [tpc EXCEPT ![t] = "checked"]
    /\ UNCHANGED <<wg, stopped, tstopped, tpanic, stopPc, procVars, notGate>>

\* if stopped { panic(http.ErrAbortHandler) }: the panic unwinds
\* abortableHandler.ServeHTTP (no deferred call registered yet) into the
\* deferred exitOnPanic of the wrapper.
GateAbort(t) ==
    /\ ~exited
    /\ tpc[t] = "checked"
    /\ tstopped[t]
    /\ tpanic' = [tpanic EXCEPT ![t] = "abort"]
    /\ tpc' = [tpc EXCEPT ![t] = "recover"]
    /\ UNCHANGED <<mu, wg, stopped, tstopped, stopPc, procVars, notGate>>

\* defer h.wg.Done(); h.h.ServeHTTP(w, r): the user handler is entered.
InnerEnter(t) ==
    /\ ~exited
    /\ tpc[t] = "checked"
    /\ ~tstopped[t]
    /\ tpc' = [tpc EXCEPT ![t] = "inner"]
    /\ UNCHANGED <<mu, wg, stopped, tstopped, tpanic, stopPc, procVars, notGate>>

\* The user handler ends, by returning or by panicking with value v; the
\* deferred h.wg.Done() runs while abortableHandler.ServeHTTP unwinds.
InnerEnd(t) ==
    /\ ~exited
    /\ tpc[t] = "inner"
    /\ \E v \in PanicValues : tpanic' = [tpanic EXCEPT ![t] = v]
    /\ wg' = wg - 1
    /\ tpc' = [tpc EXCEPT ![t] = "recover"]
    /\ UNCHANGED <<mu, stopped, tstopped, stopPc, procVars, notGate>>

\* Mutant of ExitOnPanic: every panic is recovered and swallowed, as the
\* net/http engine does by itself.
ExitOnPanicSwallowAll(t) ==
    /\ ~exited
    /\ tpc[t] = "recover"
    /\ tpc' = [tpc EXCEPT ![t] = "returned"]
    /\ UNCHANGED <<mu, wg, stopped, tstopped, tpanic, stopPc, procVars, notGate>>

\* The deferred exitOnPanic(http.ErrAbortHandler):
\*   e := recover(); if e == nil { return }
\*   for _, v := range except { if e == v { return } }
\*   ...; os.Exit(2)
\* recover() is called directly by the deferred function, so it stops the
\* panic: a plain return afterwards makes the wrapper return normally to its
\* caller. Only a value that is neither nil nor excepted reaches os.Exit(2).
ExitOnPanic(t) ==
    /\ ~exited
    /\ tpc[t] = "recover"
    /\ IF tpanic[t] \in {"none", "abort"}
         THEN /\ tpc' = [tpc EXCEPT ![t] = "returned"]
              /\ UNCHANGED procVars
         ELSE /\ tpc' = [tpc EXCEPT ![t] = "exit"]
              /\ exited' = TRUE
              /\ exitCode' = 2
    /\ UNCHANGED <<mu, wg, stopped, tstopped, tpanic, stopPc, notGate>>

-----------------------------------------------------------------------------
(* abortableHandler.Stop *)

\* Stop is called (by Server.Run, server.go:162).
StopCall ==
    /\ ~exited
    /\ stopPc = "idle"
    /\ stopPc' = "called"
    /\ UNCHANGED <<mu, wg, stopped, tpc, tstopped, tpanic, procVars, notGate>>

\* h.mu.Lock()
StopLock ==
    /\ ~exited
    /\ stopPc = "called"
    /\ mu = 0
    /\ mu' = -1
    /\ stopPc' = "locked"
    /\ UNCHANGED <<wg, stopped, tpc, tstopped, tpanic, procVars, notGate>>

\* h.stopped = true
StopSet ==
    /\ ~exited
    /\ stopPc = "locked"
    /\ stopped' = TRUE
    /\ stopPc' = "set"
    /\ UNCHANGED <<mu, wg, tpc, tstopped, tpanic, procVars, notGate>>

\* h.mu.Unlock()
StopUnlock ==
    /\ ~exited
    /\ stopPc = "set"
    /\ mu' = 0
    /\ stopPc' = "waiting"
    /\ UNCHANGED <<wg, stopped, tpc, tstopped, tpanic, procVars, notGate>>

\* h.wg.Wait() returns once the counter is zero; Stop returns.
StopWait ==
    /\ ~exited
    /\ stopPc = "waiting"
    /\ wg = 0
    /\ stopPc' = "returned"
    /\ UNCHANGED <<mu, wg, stopped, tpc, tstopped, tpanic, procVars, notGate>>

-----------------------------------------------------------------------------
(* The optional-TLS acceptor: tlsAcceptor.Accept / sniff and bufferedConn  *)

\* Longest byte sequence a client sends on the modelled connection.
MaxLen == 3

\* const recordTypeHandshake = 22
recordTypeHandshake == 22

\* bufio.NewReaderSize(c, 1): the size asked for.
sniffReaderSize == 1

\* The size bufio gives the reader: never below its minimum of 16 bytes.
ReaderSize == IF sniffReaderSize < 16 THEN 16 ELSE sniffReaderSize

\* First bytes a client may send: a TLS handshake record (22), another TLS
\* record type (23), the letters G and P of a plaintext request line.
SniffBytes == {recordTypeHandshake, 23, 71, 80}

Min(a, b) == IF a < b THEN a ELSE b

\* The first n elements of s, and what is left after them.
Take(s, n) == SubSeq(s, 1, n)
Drop(s, n) == SubSeq(s, n + 1, Len(s))

SniffInit ==
    /\ sentBytes = <<>>
    /\ wire = <<>>
    /\ peerClosed = FALSE
    /\ sniffPc = "listening"
    /\ deadline = FALSE
    /\ brBuf = <<>>
    /\ peekErr = FALSE
    /\ isTLS = FALSE
    /\ got = <<>>

\* The client writes one more byte; it reaches the server's socket.
ClientSend(b) ==
    /\ ~peerClosed
    /\ Len(sentBytes) < MaxLen
    /\ sentBytes' = Append(sentBytes, b)
    /\ wire' = Append(wire, b)
    /\ UNCHANGED <<peerClosed, sniffPc, deadline, brBuf, peekErr, isTLS, got,
                   notSniff>>

\* The client closes the connection.
ClientClose ==
    /\ ~peerClosed
    /\ peerClosed' = TRUE
    /\ UNCHANGED <<sentBytes, wire, sniffPc, deadline, brBuf, peekErr, isTLS, got,
                   notSniff>>

\* tlsAcceptor.Accept: t.Listener.Accept() returned the connection; sniff
\* builds br and bc and sets the read deadline.
SniffBegin ==
    /\ sniffPc = "listening"
    /\ sniffPc' = "peeking"
    /\ deadline' = TRUE
    /\ UNCHANGED <<sentBytes, wire, peerClosed, brBuf, peekErr, isTLS, got,
                   notSniff>>

\* The connection sniff returns for a successful peek of brBuf's first byte:
\* TRUE for tls.Server(bc, t.TLSConfig), FALSE for bc.
SniffWrapsTLS(first) == first = recordTypeHandshake

\* Mutant of PeekKeeps: the peeked byte is consumed (ReadByte for Peek).
PeekConsumes(buf) == Drop(buf, 1)

\* What br holds after Peek(1) returned its first byte: Peek does not
\* advance the reader.
PeekKeeps(buf) == buf

\* br.Peek(1) succeeds: the reader fills its buffer with one Read of the
\* connection (k bytes, at most the reader's size), Peek returns the first
\* byte; the deadline is cleared and the connection is returned.
SniffPeekOk ==
    /\ sniffPc = "peeking"
    /\ wire # <<>>
    /\ \E k \in 1..Min(Len(wire), ReaderSize) :
          /\ brBuf' = PeekKeeps(Take(wire, k))
          /\ wire' = Drop(wire, k)
          /\ isTLS' = SniffWrapsTLS(wire[1])
    /\ peekErr' = FALSE
    /\ deadline' = FALSE
    /\ sniffPc' = "returned"
    /\ UNCHANGED <<sentBytes, peerClosed, got, notSniff>>

\* Mutant of SniffOnPeekError: a failed peek is taken for TLS.
SniffOnPeekErrorWraps == TRUE

\* The connection sniff returns when Peek failed: `if err != nil ||
\* len(buf) < 1 { return bc }`, so FALSE (not TLS).
SniffOnPeekError == FALSE

\* br.Peek(1) fails: the read deadline passed (whether or not bytes had
\* arrived), or the client closed before any byte arrived. Nothing was
\* buffered. The deadline is cleared and the connection is returned.
SniffPeekFail ==
    /\ sniffPc = "peeking"
    /\ \/ deadline
       \/ peerClosed /\ wire = <<>>
    /\ peekErr' = TRUE
    /\ isTLS' = SniffOnPeekError
    /\ deadline' = FALSE
    /\ sniffPc' = "returned"
    /\ UNCHANGED <<sentBytes, wire, peerClosed, brBuf, got, notSniff>>

\* bufferedConn.Read(p) = br.Read(p), called by whoever owns the returned
\* connection (the HTTP engine, or the TLS session when isTLS): buffered
\* bytes are handed out first (n = min(len(p), buffered)); with an empty
\* buffer the reader reads the connection, directly into p or through its
\* buffer, and hands out n of the bytes read.
BufferedConnRead ==
    /\ sniffPc = "returned"
    /\ IF brBuf # <<>>
         THEN \E n \in 1..Len(brBuf) :
                 /\ got' = got \o Take(brBuf, n)
                 /\ brBuf' = Drop(brBuf, n)
                 /\ wire' = wire
         ELSE /\ wire # <<>>
              /\ \E k \in 1..Min(Len(wire), ReaderSize) : \E n \in 1..k :
                    /\ got' = got \o Take(wire, n)
                    /\ brBuf' = SubSeq(wire, n + 1, k)
                    /\ wire' = Drop(wire, k)
    /\ UNCHANGED <<sentBytes, peerClosed, sniffPc, deadline, peekErr, isTLS,
                   notSniff>>

-----------------------------------------------------------------------------
(* onceCloseListener.Close and onceCloseEarlyListener.Close                 *)

\* Number of callers of Close.
NumClosers == 2

Closers == 1..NumClosers

Wrappers == {"onceCloseListener", "onceCloseEarlyListener"}

\* What the j-th call of the underlying Close returns: the first call
\* succeeds or fails, a later one finds the listener already closed.
UnderlyingResults(j) == IF j = 1 THEN {"nil", "EIO"} ELSE {"ErrClosed"}

CloseInit ==
    /\ onceDone = [l \in Wrappers |-> FALSE]
    /\ onceM = [l \in Wrappers |-> 0]
    /\ lerr = [l \in Wrappers |-> "nil"]
    /\ nClose = [l \in Wrappers |-> 0]
    /\ underRes = [l \in Wrappers |-> <<>>]
    /\ cpc = [k \in Closers |-> "idle"]
    /\ cln = [k \in Closers |-> "onceCloseListener"]
    /\ cres = [k \in Closers |-> "nil"]

\* A caller calls l.Close(): l.once.Do(...) begins.
CloseCall(k, l) ==
    /\ cpc[k] = "idle"
    /\ cln' = [cln EXCEPT ![k] = l]
    /\ cpc' = [cpc EXCEPT ![k] = "do"]
    /\ UNCHANGED <<onceDone, onceM, lerr, nClose, underRes, cres, notClose>>

\* sync.Once.Do, fast path: the done flag is read; when set, Do returns.
OnceLoad(k) ==
    /\ cpc[k] = "do"
    /\ cpc' = [cpc EXCEPT ![k] = IF onceDone[cln[k]] THEN "ret" ELSE "slow"]
    /\ UNCHANGED <<onceDone, onceM, lerr, nClose, underRes, cln, cres, notClose>>

\* sync.Once.Do, slow path: o.m.Lock()
OnceLock(k) ==
    /\ cpc[k] = "slow"
    /\ onceM[cln[k]] = 0
    /\ onceM' = [onceM EXCEPT ![cln[k]] = k]
    /\ cpc' = [cpc EXCEPT ![k] = "locked"]
    /\ UNCHANGED <<onceDone, lerr, nClose, underRes, cln, cres, notClose>>

\* The function handed to Do: l.err = l.Listener.Close()
UnderlyingClose(k) ==
    LET l == cln[k] IN
    \E r \in UnderlyingResults(nClose[l] + 1) :
       /\ nClose' = [nClose EXCEPT ![l] = @ + 1]
       /\ underRes' = [underRes EXCEPT ![l] = Append(@, r)]
       /\ lerr' = [lerr EXCEPT ![l] = r]

\* Mutant of OnceRun: the function runs whether or not it has run before.
OnceRunUnguarded(k) ==
    /\ cpc[k] = "locked"
    /\ UnderlyingClose(k)
    /\ cpc' = [cpc EXCEPT ![k] = "ran"]
    /\ UNCHANGED <<onceDone, onceM, cln, cres, notClose>>

\* sync.Once.Do, slow path under the mutex: if done is still unset, run the
\* function.
OnceRun(k) ==
    /\ cpc[k] = "locked"
    /\ IF onceDone[cln[k]]
         THEN UNCHANGED <<lerr, nClose, underRes>>
         ELSE UnderlyingClose(k)
    /\ cpc' = [cpc EXCEPT ![k] = "ran"]
    /\ UNCHANGED <<onceDone, onceM, cln, cres, notClose>>

\* sync.Once.Do, slow path: the deferred o.done.Store(1) and o.m.Unlock()
OnceUnlock(k) ==
    /\ cpc[k] = "ran"
    /\ onceDone' = [onceDone EXCEPT ![cln[k]] = TRUE]
    /\ onceM' = [onceM EXCEPT ![cln[k]] = 0]
    /\ cpc' = [cpc EXCEPT ![k] = "ret"]
    /\ UNCHANGED <<lerr, nClose, underRes, cln, cres, notClose>>

\* return l.err
CloseReturn(k) ==
    /\ cpc[k] = "ret"
    /\ cres' = [cres EXCEPT ![k] = lerr[cln[k]]]
    /\ cpc' = [cpc EXCEPT ![k] = "done"]
    /\ UNCHANGED <<onceDone, onceM, lerr, nClose, underRes, cln, notClose>>

-----------------------------------------------------------------------------
(* The H2C coordinator: h2cHandler                                          *)

\* Number of HTTP/1 connections whose request reaches h2cHandler.ServeHTTP.
NumH2C == 2

H2Conns == 1..NumH2C

\* The request of an HTTP/2 client with prior knowledge, as the HTTP/1
\* engine parses the first line of the client preface.
PriRequest == [method |-> "PRI", headers |-> 0, path |-> "*", proto |-> "HTTP/2.0"]

\* Requests: the prior-knowledge request, each way of differing from it in
\* one field, and an ordinary HTTP/1.1 request.
Requests ==
    { PriRequest,
      [PriRequest EXCEPT !.method = "GET"],
      [PriRequest EXCEPT !.headers = 1],
      [PriRequest EXCEPT !.path = "/"],
      [PriRequest EXCEPT !.proto = "HTTP/1.1"],
      [method |-> "GET", headers |-> 1, path |-> "/", proto |-> "HTTP/1.1"] }

NoRequest == [method |-> "", headers |-> 0, path |-> "", proto |-> ""]

\* The detection without the test of the header set.
IsPriorKnowledgeAnyHeader(r) ==
    r.method = "PRI" /\ r.path = "*" /\ r.proto = "HTTP/2.0"

\* r.Method == "PRI" && len(r.Header) == 0 && r.URL.Path == "*" &&
\* r.Proto == "HTTP/2.0"
IsPriorKnowledge(r) ==
    r.method = "PRI" /\ r.headers = 0 /\ r.path = "*" /\ r.proto = "HTTP/2.0"

\* const expectedBody = "SM\r\n\r\n"
expectedBody == <<"S", "M", "\r", "\n", "\r", "\n">>

\* What a client may have sent after the request line: the right tail, a
\* truncated one (the connection ends early), a wrong one of full length,
\* and the right tail followed by more bytes.
Tails ==
    { expectedBody,
      <<"S", "M", "\r", "\n">>,
      <<>>,
      <<"S", "M", "\r", "\n", "\r", "X">>,
      <<"X", "M", "\r", "\n", "\r", "\n">>,
      expectedBody \o <<"F">> }

\* The preface check without the comparison: any six bytes pass.
PrefaceErrorLengthOnly(tail) ==
    IF Len(tail) < Len(expectedBody) THEN "short read" ELSE "none"

\* n, err := io.ReadFull(rw, buf) followed by the comparison
\* string(buf[:n]) != expectedBody: the error of the preface check.
PrefaceError(tail) ==
    IF Len(tail) < Len(expectedBody) THEN "short read"
    ELSE IF SubSeq(tail, 1, Len(expectedBody)) # expectedBody THEN "invalid preface"
    ELSE "none"

H2CInit ==
    /\ shPc = "idle"
    /\ watcher = "none"
    /\ doneClosed = FALSE
    /\ toClose = {}
    /\ nHooks = 0
    /\ ctxDone = FALSE
    /\ conns = [c \in H2Conns |-> "absent"]
    /\ trackWG = 0
    /\ serveWG = 0
    /\ connsMu = 0
    /\ hpc = [c \in H2Conns |-> "idle"]
    /\ hreq = [c \in H2Conns |-> NoRequest]
    /\ herr = [c \in H2Conns |-> "none"]
    /\ rawConn = [c \in H2Conns |-> "none"]
    /\ filled = [c \in H2Conns |-> FALSE]
    /\ fbReq = [c \in H2Conns |-> NoRequest]
    /\ hbuf = [c \in H2Conns |-> <<>>]

\* h2cHandler.ServeHTTP: the HTTP/1 engine calls the handler with request r
\* on connection c; a prior-knowledge request enters the upgrade path, any
\* other is handed to the fallback handler.
H2CServeHTTP(c, r) ==
    /\ ~exited
    /\ hpc[c] = "idle"
    /\ shPc = "idle"
    /\ hreq' = [hreq EXCEPT ![c] = r]
    /\ IF IsPriorKnowledge(r)
         THEN /\ hpc' = [hpc EXCEPT ![c] = "init"]
              /\ UNCHANGED fbReq
         ELSE /\ hpc' = [hpc EXCEPT ![c] = "fallback"]
              /\ fbReq' = [fbReq EXCEPT ![c] = r]
    /\ UNCHANGED <<conns, trackWG, serveWG, connsMu, herr, rawConn, filled, hbuf,
                   notH2C>>

\* h.fallback.ServeHTTP(w, r) returns.
H2CFallbackReturn(c) ==
    /\ ~exited
    /\ hpc[c] = "fallback"
    /\ hpc' = [hpc EXCEPT ![c] = "done"]
    /\ UNCHANGED <<conns, trackWG, serveWG, connsMu, hreq, herr, rawConn, filled,
                   fbReq, hbuf, notH2C>>

\* initH2CWithPriorKnowledge: w is no http.Hijacker; the function returns
\* its error before anything is registered.
H2CNoHijacker(c) ==
    /\ ~exited
    /\ hpc[c] = "init"
    /\ herr' = [herr EXCEPT ![c] = "hijack not supported"]
    /\ hpc' = [hpc EXCEPT ![c] = "failed"]
    /\ UNCHANGED <<conns, trackWG, serveWG, connsMu, hreq, rawConn, filled, fbReq,
                   hbuf, notH2C>>

\* h.addPending(c), under connsMu: h.conns[c] = false; h.trackWG.Add(1);
\* h.serveWG.Add(1).
AddPendingEntry(c) ==
    /\ conns' = [conns EXCEPT ![c] = "pending"]
    /\ trackWG' = trackWG + 1
    /\ serveWG' = serveWG + 1

\* c := &rwConn{}; h.addPending(c)
AddPending(c) ==
    /\ ~exited
    /\ hpc[c] = "init"
    /\ connsMu = 0
    /\ AddPendingEntry(c)
    /\ hpc' = [hpc EXCEPT ![c] = "hijack"]
    /\ UNCHANGED <<connsMu, hreq, herr, rawConn, filled, fbReq, hbuf, notH2C>>

\* conn, rw, err := hijacker.Hijack(): fails, or yields the raw connection.
H2CHijack(c) ==
    /\ ~exited
    /\ hpc[c] = "hijack"
    /\ \/ /\ herr' = [herr EXCEPT ![c] = "hijack failed"]
          /\ hpc' = [hpc EXCEPT ![c] = "initreturn"]
          /\ UNCHANGED rawConn
       \/ /\ rawConn' = [rawConn EXCEPT ![c] = "open"]
          /\ hpc' = [hpc EXCEPT ![c] = "preface"]
          /\ UNCHANGED herr
    /\ UNCHANGED <<conns, trackWG, serveWG, connsMu, hreq, filled, fbReq, hbuf, notH2C>>

\* io.ReadFull(rw, buf) and the comparison with expectedBody, for a client
\* that sent `tail` after the request line: on a short read or a wrong tail
\* the raw connection is closed and the error returned; otherwise the
\* placeholder is filled in (*c = rwConn{...}) and returned.
H2CReadPreface(c, tail) ==
    /\ ~exited
    /\ hpc[c] = "preface"
    /\ herr' = [herr EXCEPT ![c] = PrefaceError(tail)]
    /\ IF PrefaceError(tail) # "none"
         THEN /\ rawConn' = [rawConn EXCEPT ![c] = "closed"]
              /\ UNCHANGED filled
         ELSE /\ filled' = [filled EXCEPT ![c] = TRUE]
              /\ UNCHANGED rawConn
    /\ hbuf' = [hbuf EXCEPT ![c] = Take(tail, Min(Len(tail), Len(expectedBody)))]
    /\ hpc' = [hpc EXCEPT ![c] = "initreturn"]
    /\ UNCHANGED <<conns, trackWG, serveWG, connsMu, hreq, fbReq, notH2C>>

\* removeConn without the decrement of trackWG.
RemoveConnKeepsTrack(c) ==
    IF conns[c] = "absent"
      THEN UNCHANGED <<conns, trackWG, serveWG>>
      ELSE /\ conns' = [conns EXCEPT ![c] = "absent"]
           /\ trackWG' = trackWG
           /\ serveWG' = serveWG - 1

\* h.removeConn(c): under connsMu, delete the entry if it exists; trackWG
\* is decremented if setTracked had not been called for it, serveWG always.
RemoveConn(c) ==
    IF conns[c] = "absent"
      THEN UNCHANGED <<conns, trackWG, serveWG>>
      ELSE /\ conns' = [conns EXCEPT ![c] = "absent"]
           /\ trackWG' = IF conns[c] = "pending" THEN trackWG - 1 ELSE trackWG
           /\ serveWG' = serveWG - 1

\* The deferred function of initH2CWithPriorKnowledge calls removeConn
\* unless it returns early: `if err != nil { return }; h.removeConn(c)`.
InitDeferRemoves(err) == ~(err # "none")

\* initH2CWithPriorKnowledge returns (after addPending): its deferred
\* function runs; then serveH2CWithPriorKnowledge either logs the error and
\* panics with http.ErrAbortHandler or defers removeConn(conn) and calls
\* h.h2.ServeConn.
H2CInitReturn(c) ==
    /\ ~exited
    /\ hpc[c] = "initreturn"
    /\ IF InitDeferRemoves(herr[c])
         THEN connsMu = 0 /\ RemoveConn(c)
         ELSE UNCHANGED <<conns, trackWG, serveWG>>
    /\ hpc' = [hpc EXCEPT ![c] = IF herr[c] # "none" THEN "aborted" ELSE "serving"]
    /\ UNCHANGED <<connsMu, hreq, herr, rawConn, filled, fbReq, hbuf, notH2C>>

\* serveH2CWithPriorKnowledge on the error of a missing Hijacker: log, then
\* panic(http.ErrAbortHandler).
H2CAbort(c) ==
    /\ ~exited
    /\ hpc[c] = "failed"
    /\ hpc' = [hpc EXCEPT ![c] = "aborted"]
    /\ UNCHANGED <<conns, trackWG, serveWG, connsMu, hreq, herr, rawConn, filled,
                   fbReq, hbuf, notH2C>>

\* setTracked without the test of the entry's flag.
SetTrackedEvery(c) ==
    IF conns[c] = "absent"
      THEN UNCHANGED <<conns, trackWG>>
      ELSE /\ conns' = [conns EXCEPT ![c] = "tracked"]
           /\ trackWG' = trackWG - 1

\* h.setTracked(c), under connsMu: `tracked, exists := h.conns[c]; if
\* !exists || tracked { return }; h.conns[c] = true; h.trackWG.Done()`.
SetTrackedEntry(c) ==
    IF conns[c] # "pending"
      THEN UNCHANGED <<conns, trackWG>>
      ELSE /\ conns' = [conns EXCEPT ![c] = "tracked"]
           /\ trackWG' = trackWG - 1

\* h.setTracked(c), called through baseConfig.ConnState by the HTTP/2
\* engine while ServeConn runs.
SetTracked(c) ==
    /\ ~exited
    /\ hpc[c] = "serving"
    /\ connsMu = 0
    /\ SetTrackedEntry(c)
    /\ UNCHANGED <<serveWG, connsMu, hpc, hreq, herr, rawConn, filled, fbReq, hbuf, notH2C>>

\* h.h2.ServeConn returns; the deferred h.removeConn(conn) runs.
H2CServeConnReturn(c) ==
    /\ ~exited
    /\ hpc[c] = "serving"
    /\ connsMu = 0
    /\ RemoveConn(c)
    /\ hpc' = [hpc EXCEPT ![c] = "done"]
    /\ UNCHANGED <<connsMu, hreq, herr, rawConn, filled, fbReq, hbuf, notH2C>>

\* The connection of c is still owned by the HTTP/1 engine (new, not yet
\* hijacked or closed), with its handler call in progress: the lifecycle
\* tracker counts it.
H1Owned(c) ==
    \/ hpc[c] \in {"init", "hijack", "fallback", "failed"}
    \/ hpc[c] = "initreturn" /\ herr[c] = "hijack failed"

\* The context of the run is cancelled or its deadline passes.
CtxExpire ==
    /\ ~exited
    /\ ~ctxDone
    /\ ctxDone' = TRUE
    /\ UNCHANGED <<gateVars, procVars, sniffVars, aloneVars, closeVars, h2cVars, h2cShutVars,
                   runVars>>

\* h2cHandler.Shutdown begins: the done channel is made and the goroutine
\* that closes the connections on ctx.Done() is started.
ShutdownBegin ==
    /\ ~exited
    /\ shPc = "called"
    /\ shPc' = "trackwait"
    /\ watcher' = "waiting"
    /\ UNCHANGED <<doneClosed, toClose, nHooks, h2cVars, procVars, notH2CShut>>

\* h.trackWG.Wait()
ShutdownTrackWait ==
    /\ ~exited
    /\ shPc = "trackwait"
    /\ trackWG = 0
    /\ shPc' = "hooks"
    /\ UNCHANGED <<watcher, doneClosed, toClose, nHooks, h2cVars, procVars, notH2CShut>>

\* _ = h.h1.Shutdown(ctx): runs the OnShutdown hooks
ShutdownRunHooks ==
    /\ ~exited
    /\ shPc = "hooks"
    /\ nHooks' = nHooks + 1
    /\ shPc' = "servewait"
    /\ UNCHANGED <<watcher, doneClosed, toClose, h2cVars, procVars, notH2CShut>>

\* h.serveWG.Wait(); close(done)
ShutdownServeWait ==
    /\ ~exited
    /\ shPc = "servewait"
    /\ serveWG = 0
    /\ doneClosed' = TRUE
    /\ shPc' = "wgwait"
    /\ UNCHANGED <<watcher, toClose, nHooks, h2cVars, procVars, notH2CShut>>

\* wg.Wait(): the goroutine has ended; Shutdown returns.
ShutdownReturn ==
    /\ ~exited
    /\ shPc = "wgwait"
    /\ watcher = "done"
    /\ shPc' = "returned"
    /\ UNCHANGED <<watcher, doneClosed, toClose, nHooks, h2cVars, procVars, notH2CShut>>

\* The goroutine's select takes `case <-done: return`.
WatcherDone ==
    /\ ~exited
    /\ watcher = "waiting"
    /\ doneClosed
    /\ watcher' = "done"
    /\ UNCHANGED <<shPc, doneClosed, toClose, nHooks, h2cVars, procVars, notH2CShut>>

\* The goroutine's select takes `case <-ctx.Done():`; closeConns locks
\* connsMu and starts to range over h.conns.
CloseConnsLock ==
    /\ ~exited
    /\ watcher = "waiting"
    /\ ctxDone
    /\ connsMu = 0
    /\ connsMu' = -1
    /\ toClose' = {c \in H2Conns : conns[c] # "absent"}
    /\ watcher' = "closing"
    /\ UNCHANGED <<shPc, doneClosed, nHooks, conns, trackWG, serveWG, hpc, hreq, herr,
                   rawConn, filled, fbReq, hbuf, procVars,
                   notH2CShut>>

\* closeConns: `_ = c.Close()` on one entry. Close is the method of the
\* embedded net.Conn: on a placeholder that is not filled in the embedded
\* interface is nil and the call panics, which ends the process (exit
\* code 2).
CloseConnsOne(c) ==
    /\ ~exited
    /\ watcher = "closing"
    /\ c \in toClose
    /\ toClose' = toClose \ {c}
    /\ IF filled[c]
         THEN /\ rawConn' = [rawConn EXCEPT ![c] = "closed"]
              /\ UNCHANGED procVars
         ELSE /\ exited' = TRUE
              /\ exitCode' = 2
              /\ UNCHANGED rawConn
    /\ UNCHANGED <<shPc, watcher, doneClosed, nHooks, conns, trackWG, serveWG, connsMu,
                   hpc, hreq, herr, filled, fbReq, hbuf,
                   notH2CShut>>

\* closeConns returns: the deferred h.connsMu.Unlock(); the goroutine ends.
CloseConnsUnlock ==
    /\ ~exited
    /\ watcher = "closing"
    /\ toClose = {}
    /\ connsMu' = 0
    /\ watcher' = "done"
    /\ UNCHANGED <<shPc, doneClosed, toClose, nHooks, conns, trackWG, serveWG, hpc, hreq,
                   herr, rawConn, filled, fbReq, hbuf, procVars,
                   notH2CShut>>

\* Shutdown is called (by Server.Run, server.go:160) once the HTTP/1 engine
\* is shut down and every connection it accepted is hijacked or closed.
ShutdownCall ==
    /\ ~exited
    /\ shPc = "idle"
    /\ \A c \in H2Conns : ~H1Owned(c)
    /\ shPc' = "called"
    /\ UNCHANGED <<watcher, doneClosed, toClose, nHooks, h2cVars, procVars, notH2CShut>>

-----------------------------------------------------------------------------
(* Server.Run and the runners of the two protocol families *)


\* TCP runners (stream sockets) and QUIC runners (packet sockets) of the run.
NumTCP == 2
NumUDP == 1

\* Connections the HTTP/1 engine owns at a time.
MaxConns == 1

TCPRunners == {<<"tcp", i>> : i \in 1..NumTCP}
UDPRunners == {<<"udp", i>> : i \in 1..NumUDP}
Runners == TCPRunners \cup UDPRunners

Families == {"tcp", "udp"}
Family(r) == r[1]

RunPcs == {"configure", "procs", "connwait", "h2c", "stop", "returned"}
RunnerPcs == {"listen", "callback", "once", "shutwait", "close", "lnclose",
              "recv", "done"}

\* Calls of the composed handler made by the goroutine of an HTTP/1
\* connection that the engine still owns.
SyncActive == {t \in Tasks : tsync[t] /\ tpc[t] \notin {"idle", "returned", "aborted", "exit"}}

\* Server.Run is entered: nothing listens, both sync.Once are fresh, connWG
\* is zero.
\* The connections of the HTTP/1 engine.
H1Conns == 1..MaxConns

RunInit ==
    /\ runPc = "configure"
    /\ cleartext \in BOOLEAN
    /\ rpc = [r \in Runners |-> "listen"]
    /\ listenErr = [r \in Runners |-> "none"]
    /\ lnState = [r \in Runners |-> "none"]
    /\ pcState = [r \in UDPRunners |-> "none"]
    /\ serve = [r \in Runners |-> "none"]
    /\ fgDone = [r \in Runners |-> FALSE]
    /\ cb = "notcalled"
    /\ groupStop = FALSE
    /\ once = [f \in Families |-> "fresh"]
    /\ nShutdown = [f \in Families |-> 0]
    /\ h1InShutdown = FALSE
    /\ h3Closed = FALSE
    /\ connWG = 0
    /\ tsync = [t \in Tasks |-> FALSE]
    /\ cstate = [c \in H1Conns |-> "none"]
    /\ pend = [r \in Runners |-> 0]
    /\ h1sh = "idle"
    /\ nForce = [r \in Runners |-> 0]
    /\ cbErr = [r \in Runners |-> "unset"]
    /\ serveErr = [r \in Runners |-> "unset"]
    /\ closeErr = [r \in Runners |-> "unset"]
    /\ pcErr = [r \in UDPRunners |-> "unset"]
    /\ engErr = [r \in Runners |-> {}]
    /\ ret = [r \in Runners |-> <<>>]

\* The error of http2.ConfigureServer(h1, h2). It fails only on the cipher
\* suites of an h1.TLSConfig that is set, and Run builds h1 without a
\* TLSConfig, so it returns nil.
ConfigureServerFails == FALSE

\* http2.ConfigureServer(h1, h2): on error Run returns at once, before any
\* runner exists; otherwise the runners are built and handed to
\* process.Parallel.
RunConfigure ==
    /\ ~exited
    /\ runPc = "configure"
    /\ runPc' = IF ConfigureServerFails THEN "returned" ELSE "procs"
    /\ UNCHANGED <<cleartext, runnerVars, connWG, tsync, gateVars, h2cShutVars,
                   ctxVars, notRun>>

\* The start of a runner: Listen (and, for QUIC, quic.ListenEarly). On error
\* the runner returns it (serveH3.Run leaves the packet socket open when
\* ListenEarly fails) and the group stops. Otherwise the listener is wrapped
\* for idempotent close, the serve goroutine is started and the callback
\* given by the group is entered.
\* The runner goes on to the callback whatever Listen returned.
AfterListenIgnoresError(e) == "callback"

\* `if err != nil { return err }` after Listen and after quic.ListenEarly:
\* where the runner is next.
AfterListen(e) == IF e = "none" THEN "callback" ELSE "done"

RunnerListen(r) ==
    /\ ~exited
    /\ runPc = "procs"
    /\ rpc[r] = "listen"
    /\ \E e \in (IF Family(r) = "tcp" THEN {"none", "listen"}
                                      ELSE {"none", "listen", "early"}) :
        /\ listenErr' = [listenErr EXCEPT ![r] = e]
        /\ rpc' = [rpc EXCEPT ![r] = AfterListen(e)]
        /\ lnState' = [lnState EXCEPT ![r] = IF e = "none" THEN "open" ELSE @]
        /\ pcState' = IF Family(r) = "udp" /\ e # "listen"
                        THEN [pcState EXCEPT ![r] = "open"] ELSE pcState
        /\ serve' = [serve EXCEPT ![r] = IF e = "none" THEN "running" ELSE @]
        /\ groupStop' = (groupStop \/ e # "none")
        /\ ret' = [ret EXCEPT ![r] = IF e = "none" THEN @ ELSE <<e>>]
    /\ UNCHANGED <<runPc, cleartext, fgDone, cb, once, nShutdown,
                   h1InShutdown, h3Closed, connWG, tsync, gateVars,
                   h2cShutVars, ctxVars, procVars, sniffVars, aloneVars, closeVars,
                   h2cVars, h1Vars, cbErr, serveErr, closeErr, pcErr, engErr>>

\* The group invokes the ready callback, once, when every unit has started
\* its work.
ParallelCallback ==
    /\ ~exited
    /\ cb = "notcalled"
    /\ ~groupStop
    /\ \A r \in Runners : rpc[r] = "callback"
    /\ cb' = "running"
    /\ UNCHANGED <<runPc, cleartext, rpc, listenErr, lnState, pcState, serve,
                   fgDone, groupStop, once, nShutdown, h1InShutdown,
                   h3Closed, connWG, tsync, gateVars, h2cShutVars,
                   ctxVars, notRun>>

\* The ready callback returns: the group moves to its stop phase.
ParallelCallbackReturn ==
    /\ ~exited
    /\ cb = "running"
    /\ cb' = "returned"
    /\ groupStop' = TRUE
    /\ UNCHANGED <<runPc, cleartext, rpc, listenErr, lnState, pcState, serve,
                   fgDone, once, nShutdown, h1InShutdown,
                   h3Closed, connWG, tsync, gateVars, h2cShutVars, ctxVars, notRun>>

\* callback(fgctx) returns in a runner: the group stops, the serve loop of
\* the runner has exited (fgctx is cancelled), or ctx is done.
RunnerCallbackReturn(r) ==
    /\ ~exited
    /\ rpc[r] = "callback"
    /\ groupStop \/ fgDone[r] \/ ctxDone
    /\ rpc' = [rpc EXCEPT ![r] = "once"]
    /\ groupStop' = TRUE
    /\ UNCHANGED <<runPc, cleartext, listenErr, lnState, pcState, serve,
                   fgDone, cb, once, nShutdown, h1InShutdown, h3Closed,
                   connWG, tsync, gateVars, h2cShutVars, ctxVars, notRun>>

\* The listeners the HTTP/1 engine closes when it is shut down or closed:
\* those its running serve loops registered.
EngineClosesListeners ==
    [q \in Runners |->
        IF Family(q) = "tcp" /\ serve[q] = "running" /\ lnState[q] = "open"
          THEN "closed" ELSE lnState[q]]

\* The guard of s.d.Do: the function runs only for the first caller.
OnceAlwaysFresh(f) == TRUE
OnceFresh(f) == once[f] = "fresh"

\* s.d.Do(...) is called by the first runner of the family: the function
\* runs. For a TCP runner it is gracefulShutdown, which calls
\* s.h.Shutdown(ctx): the HTTP/1 engine stops accepting and closes its
\* listeners. For a QUIC runner it is s.h.Shutdown(ctx) of the HTTP/3 engine.
OnceDoRun(r) ==
    /\ ~exited
    /\ rpc[r] = "once"
    /\ OnceFresh(Family(r))
    /\ once' = [once EXCEPT ![Family(r)] = "running"]
    /\ nShutdown' = [nShutdown EXCEPT ![Family(r)] = @ + 1]
    /\ h1InShutdown' = (h1InShutdown \/ Family(r) = "tcp")
    /\ h3Closed' = (h3Closed \/ Family(r) = "udp")
    /\ lnState' = IF Family(r) = "tcp" THEN EngineClosesListeners ELSE lnState
    /\ rpc' = [rpc EXCEPT ![r] = "shutwait"]
    /\ UNCHANGED <<runPc, cleartext, listenErr, pcState, serve, fgDone, cb,
                   groupStop, connWG, tsync, gateVars, h2cShutVars, ctxVars, notRun>>

\* The function given to Do completes. s.h.Shutdown(ctx) of the HTTP/1
\* engine returns either with every connection of the engine gone or with
\* the error of ctx, and in the latter case gracefulShutdown calls
\* s.h.Close().
OnceDoReturn(r) ==
    /\ ~exited
    /\ rpc[r] = "shutwait"
    /\ Family(r) = "tcp" => (connWG = 0 \/ ctxDone)
    /\ once' = [once EXCEPT ![Family(r)] = "done"]
    /\ rpc' = [rpc EXCEPT ![r] = "close"]
    /\ UNCHANGED <<runPc, cleartext, listenErr, lnState, pcState, serve, fgDone, cb,
                   groupStop, nShutdown, h1InShutdown, h3Closed, connWG, tsync,
                   gateVars, h2cShutVars, ctxVars, notRun>>

\* Do of a later caller returns only when the first call has completed.
OnceReturnsAtOnce(f) == once[f] # "fresh"
OnceCompleted(f) == once[f] = "done"

\* s.d.Do(...) for a later runner of the family: Do returns, without running
\* the function, once the first call has completed.
OnceDoSkip(r) ==
    /\ ~exited
    /\ rpc[r] = "once"
    /\ OnceCompleted(Family(r))
    /\ rpc' = [rpc EXCEPT ![r] = "close"]
    /\ UNCHANGED <<runPc, cleartext, listenErr, lnState, pcState, serve,
                   fgDone, cb, groupStop, once, nShutdown, h1InShutdown,
                   h3Closed, connWG, tsync, gateVars, h2cShutVars, ctxVars, notRun>>

\* After Do: a TCP runner calls s.h.Close(), always; every runner then calls
\* l.Close() on its listener wrapper and takes the error of its serve loop
\* from errc; a QUIC runner closes its packet socket (pc.Close()); the runner
\* returns.
RunnerClose(r) ==
    /\ ~exited
    /\ rpc[r] = "close"
    /\ serve[r] = "sent"
    /\ h1InShutdown' = (h1InShutdown \/ Family(r) = "tcp")
    /\ lnState' = [(IF Family(r) = "tcp" THEN EngineClosesListeners ELSE lnState)
                     EXCEPT ![r] = "closed"]
    /\ pcState' = IF Family(r) = "udp" THEN [pcState EXCEPT ![r] = "closed"] ELSE pcState
    /\ rpc' = [rpc EXCEPT ![r] = "done"]
    /\ UNCHANGED <<runPc, cleartext, listenErr, serve, fgDone, cb, groupStop, once,
                   nShutdown, h3Closed, connWG, tsync, gateVars, h2cShutVars,
                   ctxVars, notRun>>

\* The serve goroutine: s.h.Serve(l) / s.h.ServeListener(l) returns, because
\* the engine was shut down or closed, because the listener was closed, or
\* because accepting failed; then cancel() of fgctx and errc <- err (errc
\* has room for the one value). Serve of the HTTP/1 engine closes the
\* listener it was given when it returns.
ServeReturn(r) ==
    /\ ~exited
    /\ serve[r] = "running"
    /\ pend[r] = 0
    /\ lnState' = IF Family(r) = "tcp" THEN [lnState EXCEPT ![r] = "closed"] ELSE lnState
    /\ fgDone' = [fgDone EXCEPT ![r] = TRUE]
    /\ serve' = [serve EXCEPT ![r] = "sent"]
    /\ UNCHANGED <<runPc, cleartext, rpc, listenErr, pcState, cb, groupStop, once,
                   nShutdown, h1InShutdown, h3Closed, connWG, tsync,
                   gateVars, h2cShutVars, ctxVars, notRun>>

\* connTrack on http.StateNew: a serve loop of the HTTP/1 engine accepted a
\* connection; s.connWG.Add(1).
ConnNew(r) ==
    /\ ~exited
    /\ Family(r) = "tcp"
    /\ serve[r] = "running"
    /\ lnState[r] = "open"
    /\ ~h1InShutdown
    /\ connWG < MaxConns
    /\ connWG' = connWG + 1
    /\ UNCHANGED <<runPc, cleartext, runnerVars, tsync, gateVars, h2cShutVars,
                   ctxVars, notRun>>

\* connTrack on http.StateClosed, for a connection whose goroutine is not
\* inside the handler: s.connWG.Done().
ConnClosed ==
    /\ ~exited
    /\ connWG > Cardinality(SyncActive)
    /\ connWG' = connWG - 1
    /\ UNCHANGED <<runPc, cleartext, runnerVars, tsync, gateVars, h2cShutVars,
                   ctxVars, notRun>>

\* The goroutine of an HTTP/1 connection calls the composed handler.
H1Request(t) ==
    /\ connWG > Cardinality(SyncActive)
    /\ CallWrapper(t)
    /\ tsync' = [tsync EXCEPT ![t] = TRUE]
    /\ UNCHANGED <<runPc, cleartext, runnerVars, connWG, h2cShutVars, ctxVars,
                   sniffVars, aloneVars, closeVars, h2cVars, h1Vars, errVars>>

\* connTrack on http.StateHijacked: the handler took the connection over
\* while its call is in progress; s.connWG.Done().
H1Hijacked(t) ==
    /\ ~exited
    /\ tsync[t]
    /\ tpc[t] = "inner"
    /\ tsync' = [tsync EXCEPT ![t] = FALSE]
    /\ connWG' = connWG - 1
    /\ UNCHANGED <<runPc, cleartext, runnerVars, gateVars, h2cShutVars, ctxVars,
                   notRun>>

\* A goroutine the HTTP/2 or HTTP/3 engine started calls the composed
\* handler; it may do so whenever a serve loop of the run has been started.
BackgroundRequest(t) ==
    /\ \E r \in Runners : serve[r] # "none"
    /\ CallWrapper(t)
    /\ tsync' = [tsync EXCEPT ![t] = FALSE]
    /\ UNCHANGED <<runPc, cleartext, runnerVars, connWG, h2cShutVars, ctxVars,
                   sniffVars, aloneVars, closeVars, h2cVars, h1Vars, errVars>>

\* The state in which process.Parallel leaves the units when all of them
\* have returned, S being the units whose Listen succeeded: each ran the
\* steps of its Run after the callback, so its family's shutdown sequence
\* has run, its engine is closed, its serve loop has ended and its sockets
\* are closed.
UnitsReturned(S) ==
    /\ rpc' = [r \in Runners |-> "done"]
    /\ serve' = [r \in Runners |-> IF r \in S THEN "sent" ELSE serve[r]]
    /\ fgDone' = [r \in Runners |-> r \in S \/ fgDone[r]]
    /\ lnState' = [r \in Runners |-> IF r \in S THEN "closed" ELSE lnState[r]]
    /\ once' = [f \in Families |->
                  IF \E r \in S : Family(r) = f THEN "done" ELSE once[f]]
    /\ nShutdown' = [f \in Families |->
                       IF \E r \in S : Family(r) = f THEN 1 ELSE nShutdown[f]]
    /\ h1InShutdown' = (h1InShutdown \/ \E r \in S : Family(r) = "tcp")
    /\ h3Closed' = (h3Closed \/ \E r \in S : Family(r) = "udp")
    /\ groupStop' = TRUE

\* listenAndServe.Run, taken as one call: every unit has started its work
\* and the ready callback is invoked.
ListenAndServeStart ==
    /\ ~exited
    /\ runPc = "procs"
    /\ \A r \in Runners : rpc[r] = "listen"
    /\ rpc' = [r \in Runners |-> "callback"]
    /\ lnState' = [r \in Runners |-> "open"]
    /\ pcState' = [r \in UDPRunners |-> "open"]
    /\ serve' = [r \in Runners |-> "running"]
    /\ cb' = "running"
    /\ UNCHANGED <<runPc, cleartext, listenErr, fgDone, groupStop, once, nShutdown,
                   h1InShutdown, h3Closed, connWG, tsync, gateVars, h2cShutVars,
                   ctxVars, notRun>>

\* listenAndServe.Run, taken as one call: the Listen of one unit fails, the
\* other units are stopped and the ready callback is never invoked.
ListenAndServeFail ==
    /\ ~exited
    /\ runPc = "procs"
    /\ \A r \in Runners : rpc[r] = "listen"
    /\ \E r0 \in Runners :
         \E e \in (IF Family(r0) = "tcp" THEN {"listen"} ELSE {"listen", "early"}) :
            /\ listenErr' = [listenErr EXCEPT ![r0] = e]
            /\ pcState' = [r \in UDPRunners |->
                             IF r # r0 THEN "closed"
                             ELSE IF e = "early" THEN "open" ELSE "none"]
            /\ UnitsReturned(Runners \ {r0})
    /\ UNCHANGED <<runPc, cleartext, cb, connWG, tsync, gateVars, h2cShutVars,
                   ctxVars, notRun>>

\* listenAndServe.Run, taken as one call: the ready callback has returned
\* (or ctx is done, or a serve loop has ended) and every unit has run its
\* shutdown steps and returned.
ListenAndServeStop ==
    /\ ~exited
    /\ cb = "running"
    /\ \A r \in Runners : rpc[r] = "callback"
    /\ cb' = "returned"
    /\ pcState' = [r \in UDPRunners |-> "closed"]
    /\ UnitsReturned(Runners)
    /\ UNCHANGED <<runPc, cleartext, listenErr, connWG, tsync, gateVars,
                   h2cShutVars, ctxVars, notRun>>

\* runError := listenAndServe.Run(ctx, callback) has returned: every runner
\* of the group has returned.
RunnersReturnedEarly == TRUE
RunnersReturned == \A r \in Runners : rpc[r] = "done"

\* listenAndServe.Run returns when every unit has returned; Run then waits in
\* s.connWG.Wait().
RunProcsDone ==
    /\ ~exited
    /\ runPc = "procs"
    /\ RunnersReturned
    /\ runPc' = "connwait"
    /\ UNCHANGED <<cleartext, runnerVars, connWG, tsync, gateVars, h2cShutVars,
                   ctxVars, notRun>>

\* s.connWG.Wait() returns; Run calls h2c.Shutdown(ctx) if cleartext HTTP/2
\* is enabled, and sh.Stop() otherwise.
RunConnWait ==
    /\ ~exited
    /\ runPc = "connwait"
    /\ connWG = 0
    /\ IF cleartext
         THEN runPc' = "h2c" /\ shPc' = "called" /\ UNCHANGED stopPc
         ELSE runPc' = "stop" /\ stopPc' = "called" /\ UNCHANGED shPc
    /\ UNCHANGED <<cleartext, runnerVars, connWG, tsync, mu, wg, stopped, tpc,
                   tstopped, tpanic, watcher, doneClosed, toClose, nHooks, ctxVars,
                   notRun>>

\* h2c.Shutdown(ctx) returned; Run calls sh.Stop().
RunH2CShutdownDone ==
    /\ ~exited
    /\ runPc = "h2c"
    /\ shPc = "returned"
    /\ runPc' = "stop"
    /\ stopPc' = "called"
    /\ UNCHANGED <<cleartext, runnerVars, connWG, tsync, mu, wg, stopped, tpc,
                   tstopped, tpanic, h2cShutVars, ctxVars, notRun>>

\* Run returns only after sh.Stop() has returned.
RunReturnsEarly == TRUE
RunStopReturned == stopPc = "returned"

\* return runError.
RunReturn ==
    /\ ~exited
    /\ runPc = "stop"
    /\ RunStopReturned
    /\ runPc' = "returned"
    /\ UNCHANGED <<cleartext, runnerVars, connWG, tsync, gateVars, h2cShutVars,
                   ctxVars, notRun>>

-----------------------------------------------------------------------------
(* grpcMux: the handler returned by GRPC(h, g) *)

\* Longest Content-Type value, in tokens.
MaxCT == 3

\* Content-Type values are sequences of these pieces; the empty sequence is
\* the value of a request without the header (Header.Get returns "").
CTTokens == {"application/", "grpc", "+proto", "json"}

\* The values of http.Request.ProtoMajor.
ProtoMajors == {1, 2, 3}

\* "application/grpc"
grpcContentType == <<"application/", "grpc">>

RECURSIVE SeqsUpTo(_, _)
SeqsUpTo(S, n) ==
    IF n = 0 THEN {<<>>}
    ELSE LET shorter == SeqsUpTo(S, n - 1)
         IN shorter \cup {Append(q, x) : q \in shorter, x \in S}

MuxRequests == [major : ProtoMajors, ct : SeqsUpTo(CTTokens, MaxCT)]

NoMuxRequest == [major |-> 0, ct |-> <<>>]

\* strings.HasPrefix(str, prefix)
HasPrefix(str, prefix) ==
    /\ Len(str) >= Len(prefix)
    /\ SubSeq(str, 1, Len(prefix)) = prefix

\* The test without the protocol version.
IsGRPCAnyVersion(req) == HasPrefix(req.ct, grpcContentType)

\* `r.ProtoMajor == 2 && strings.HasPrefix(r.Header.Get("Content-Type"),
\* "application/grpc")`
IsGRPC(req) == req.major = 2 /\ HasPrefix(req.ct, grpcContentType)

MuxInit ==
    /\ gmPc = "idle"
    /\ gmReq = NoMuxRequest
    /\ hCalls = 0
    /\ gCalls = 0

\* grpcMux.ServeHTTP is called with req and calls m.g.ServeHTTP or
\* m.h.ServeHTTP.
GrpcMuxServeHTTP(req) ==
    /\ gmPc = "idle"
    /\ gmReq' = req
    /\ IF IsGRPC(req)
         THEN gmPc' = "g" /\ gCalls' = gCalls + 1 /\ UNCHANGED hCalls
         ELSE gmPc' = "h" /\ hCalls' = hCalls + 1 /\ UNCHANGED gCalls
    /\ UNCHANGED <<notAlone, quoteVars, hookVars>>

\* The handler that was called returns, and so does grpcMux.ServeHTTP.
GrpcMuxReturn ==
    /\ gmPc \in {"h", "g"}
    /\ gmPc' = "returned"
    /\ UNCHANGED <<gmReq, hCalls, gCalls, notAlone, quoteVars, hookVars>>

(* quoteSingle (jsonsumtype/codegen/templates.go) *)

\* Longest argument of quoteSingle.
MaxQuote == 3

\* The bytes of the alphabet: a letter, the single quote, the double quote
\* and the backslash (the constants single, double and escape).
QuoteBytes == {"a", "sq", "dq", "bs"}

QuoteInputs == SeqsUpTo(QuoteBytes, MaxQuote)

\* strconv.AppendQuote(nil, s) on this alphabet: s between double quotes,
\* with a backslash before each double quote and each backslash.
RECURSIVE QuoteBody(_)
QuoteBody(str) ==
    IF str = <<>> THEN <<>>
    ELSE (IF Head(str) \in {"dq", "bs"} THEN <<"bs", Head(str)>> ELSE <<Head(str)>>)
            \o QuoteBody(Tail(str))

AppendQuote(str) == <<"dq">> \o QuoteBody(str) \o <<"dq">>

\* buf[i] and buf[i] = x of a Go slice (indices from 0) held as a sequence.
At(buf, i) == buf[i + 1]
Put(buf, i, x) == [buf EXCEPT ![i + 1] = x]

\* The first loop, `for i := end - 1; i > 0; i--`, from index i on: the
\* values of delta and changed when it ends.
RECURSIVE ScanLoop(_, _, _, _)
ScanLoop(buf, i, delta, changed) ==
    IF i <= 0 THEN [delta |-> delta, changed |-> changed]
    ELSE IF At(buf, i) = "sq" THEN ScanLoop(buf, i - 1, delta + 1, TRUE)
    ELSE IF At(buf, i - 1) = "bs" /\ At(buf, i) = "dq"
           THEN ScanLoop(buf, i - 1, delta - 1, TRUE)
    ELSE ScanLoop(buf, i - 1, delta, changed)

\* The second loop, `for i := end - 1; i > 0; i--`, from index i on with
\* write index n: buf and n when it ends, or a panic when an index
\* expression is out of range.
RECURSIVE RewriteLoop(_, _, _)
RewriteLoop(buf, i, n) ==
    IF i <= 0 THEN [panic |-> FALSE, buf |-> buf, n |-> n]
    ELSE IF n < 0 \/ n >= Len(buf) THEN [panic |-> TRUE, buf |-> buf, n |-> n]
    ELSE LET copied == Put(buf, n, At(buf, i))
         IN IF At(copied, i) = "sq"
              THEN IF n - 1 < 0
                     THEN [panic |-> TRUE, buf |-> copied, n |-> n - 1]
                     ELSE RewriteLoop(Put(copied, n - 1, "bs"), i - 1, n - 2)
            ELSE IF At(copied, i - 1) = "bs" /\ At(copied, i) = "dq"
              THEN RewriteLoop(copied, i - 2, n - 1)
            ELSE RewriteLoop(copied, i - 1, n - 1)

QuoteInit ==
    /\ qsPc = "idle"
    /\ qsIn = <<>>
    /\ qsBuf = <<>>
    /\ qsDelta = 0
    /\ qsChanged = FALSE
    /\ qsOut = <<>>

\* quoteSingle(str) is called: strconv.AppendQuote and the first loop.
QuoteSingleScan(str) ==
    /\ qsPc = "idle"
    /\ qsIn' = str
    /\ LET buf == AppendQuote(str)
           end == Len(buf) - 1
           r == ScanLoop(buf, end - 1, 0, FALSE)
       IN /\ qsBuf' = buf
          /\ qsDelta' = r.delta
          /\ qsChanged' = r.changed
    /\ qsPc' = "scanned"
    /\ UNCHANGED <<qsOut, notAlone, muxVars, hookVars>>

\* The rest of quoteSingle: the return of the unchanged case, or the
\* growth of buf by delta, the second loop and `return string(buf[n:])`.
QuoteSingleRewrite ==
    /\ qsPc = "scanned"
    /\ LET end == Len(qsBuf) - 1
           grown == IF qsDelta > 0
                      THEN qsBuf \o [k \in 1..qsDelta |-> "zero"]
                      ELSE qsBuf
           last == Len(grown) - 1
           r == RewriteLoop(Put(grown, last, "sq"), end - 1, last - 1)
       IN IF ~qsChanged
            THEN /\ qsOut' = Put(Put(qsBuf, 0, "sq"), end, "sq")
                 /\ qsPc' = "returned"
            ELSE IF r.panic \/ r.n < 0
              THEN qsPc' = "panicked" /\ UNCHANGED qsOut
              ELSE /\ qsOut' = SubSeq(Put(r.buf, r.n, "sq"), r.n + 1, Len(r.buf))
                   /\ qsPc' = "returned"
    /\ UNCHANGED <<qsIn, qsBuf, qsDelta, qsChanged, notAlone, muxVars, hookVars>>

(* The ConnState hooks of the HTTP/1 and HTTP/2 engines *)

\* Notifications sent by the two engines.
MaxNotes == 5

HookInit ==
    /\ hkUser = "unset"
    /\ hkH1 = <<>>
    /\ hkBase = <<>>
    /\ hkConn = [c \in H2Conns |-> "none"]
    /\ hkH2 = [c \in H2Conns |-> "none"]
    /\ hkFrom = "none"
    /\ hkCalls = <<>>
    /\ hkWG = 0
    /\ hkTracked = [c \in H2Conns |-> FALSE]
    /\ hkN = 0

(* The TLS next-protocol table of the HTTP/1 engine (server.go:68-118) *)

\* Protocol names a user's table may hold besides "h2".
NumProtos == 2

\* http2.NextProtoTLS, the name "h2", and the other names.
NextProtoTLS == <<"h2", 0>>
ProtoNames == {NextProtoTLS} \cup {<<"other", i>> : i \in 1..NumProtos}

\* Entries of a table: none, a function of the user, or the function
\* http2.ConfigureServer installs (it hands the connection to the HTTP/2
\* server).
UserFuncs == {"user1", "user2"}
ProtoEntries == {"absent", "h2server"} \cup UserFuncs

EmptyTable == [k \in ProtoNames |-> "absent"]

\* The tables a user can supply.
UserTables == [ProtoNames -> {"absent"} \cup UserFuncs]

ProtoInit ==
    /\ tpPc = "idle"
    /\ tpUserNil = TRUE
    /\ tpUser = EmptyTable
    /\ tpUser0 = EmptyTable
    /\ tpNil = TRUE
    /\ tpTable = EmptyTable
    /\ tpMM = EmptyTable
    /\ tpLeft = {}

\* Server.Run is called on a server whose H1.TLSNextProto is nil or the
\* table m; it builds h1 := &http.Server{...}, which leaves h1.TLSNextProto
\* nil.
ProtoBuild(isNil, m) ==
    /\ tpPc = "idle"
    /\ isNil => m = EmptyTable
    /\ tpUserNil' = isNil
    /\ tpUser' = m
    /\ tpUser0' = m
    /\ tpNil' = TRUE
    /\ tpTable' = EmptyTable
    /\ tpPc' = "built"
    /\ UNCHANGED <<tpMM, tpLeft, notProto>>

\* http2.ConfigureServer(h1, h2): `if s.TLSNextProto == nil { s.TLSNextProto
\* = map... }; s.TLSNextProto[NextProtoTLS] = protoHandler`.
ConfigureServer(table) == [table EXCEPT ![NextProtoTLS] = "h2server"]

ProtoConfigure ==
    /\ tpPc = "built"
    /\ tpNil' = FALSE
    /\ tpTable' = ConfigureServer(tpTable)
    /\ tpPc' = "configured"
    /\ UNCHANGED <<tpUserNil, tpUser, tpUser0, tpMM, tpLeft, notProto>>

\* `if m := s.h1.TLSNextProto; m != nil { mm := make(...); for k, v := range
\* m {` : the loop begins, or the statement is skipped.
ProtoCopyBegin ==
    /\ tpPc = "configured"
    /\ IF tpUserNil
         THEN tpPc' = "done" /\ UNCHANGED <<tpMM, tpLeft>>
         ELSE /\ tpPc' = "copying"
              /\ tpMM' = EmptyTable
              /\ tpLeft' = {k \in ProtoNames : tpUser[k] # "absent"}
    /\ UNCHANGED <<tpUserNil, tpUser, tpUser0, tpNil, tpTable, notProto>>

\* One round of the loop, in the order the map yields its keys: mm[k] = v.
ProtoCopyOne(k) ==
    /\ tpPc = "copying"
    /\ k \in tpLeft
    /\ tpMM' = [tpMM EXCEPT ![k] = tpUser[k]]
    /\ tpLeft' = tpLeft \ {k}
    /\ UNCHANGED <<tpPc, tpUserNil, tpUser, tpUser0, tpNil, tpTable, notProto>>

\* The loop is over: h1.TLSNextProto = mm.
ProtoCopyEnd ==
    /\ tpPc = "copying"
    /\ tpLeft = {}
    /\ tpTable' = tpMM
    /\ tpNil' = FALSE
    /\ tpPc' = "done"
    /\ UNCHANGED <<tpUserNil, tpUser, tpUser0, tpMM, tpLeft, notProto>>

(* rwConn: the connection handed to the HTTP/2 engine (h2c.go:287-315) *)

\* Longest sequence of bytes the client sends after the preface tail.
MaxRest == 2

\* Size of a buffer of the hijacked connection's bufio.ReadWriter.
BufSize == 2

\* Longest argument of a Write call.
MaxWrite == 3

\* http2.ClientPreface = "PRI * HTTP/2.0\r\n\r\nSM\r\n\r\n"
ClientPreface ==
    <<"P", "R", "I", " ", "*", " ", "H", "T", "T", "P", "/", "2", ".", "0",
      "\r", "\n", "\r", "\n", "S", "M", "\r", "\n", "\r", "\n">>

\* Lengths p of the slice given to Read.
ReadSizes == {1, BufSize, Len(ClientPreface) - 1, Len(ClientPreface) + MaxRest}

RestBytes == {"x", "y"}
Rests == SeqsUpTo(RestBytes, MaxRest)

ReadInit ==
    /\ rdPc = "idle"
    /\ rdRest = <<>>
    /\ rdClosed = FALSE
    /\ rdBuf = <<>>
    /\ rdWire = <<>>
    /\ rdReaders = <<>>
    /\ rdPos = 0
    /\ rdGot = <<>>
    /\ rdRet = <<0, "none">>

\* The reader of the connection is rw alone.
NewReadersRwOnly == <<"rw">>

\* Reader: io.MultiReader(strings.NewReader(http2.ClientPreface), rw): the
\* readers it is made of, in order.
NewReaders == <<"preface", "rw">>

\* initH2CWithPriorKnowledge succeeds on a connection whose client sends
\* `rest` after the preface tail: io.ReadFull(rw, buf) has taken the six
\* bytes of the tail, nb bytes of rest are in the buffer of rw already, and
\* *c = rwConn{...} is assigned.
RwUpgrade(rest, nb) ==
    /\ rdPc = "idle"
    /\ nb <= Len(rest)
    /\ nb <= BufSize
    /\ rdRest' = rest
    /\ rdBuf' = Take(rest, nb)
    /\ rdWire' = Drop(rest, nb)
    /\ rdReaders' = NewReaders
    /\ rdPos' = 0
    /\ rdPc' = "open"
    /\ UNCHANGED <<rdClosed, rdGot, rdRet, notRead>>

\* The client closes its side: once its bytes are read, reads of the raw
\* connection return io.EOF.
RwPeerClose ==
    /\ rdPc = "open"
    /\ ~rdClosed
    /\ rdClosed' = TRUE
    /\ UNCHANGED <<rdPc, rdRest, rdBuf, rdWire, rdReaders, rdPos, rdGot, rdRet, notRead>>

\* strings.Reader.Read with len(p) = k at position pos: the bytes copied.
StringsRead(pos, k) ==
    SubSeq(ClientPreface, pos + 1, pos + Min(k, Len(ClientPreface) - pos))

\* rwConn.Read(p) with len(p) = k, which is c.Reader.Read(p). The
\* MultiReader reads from its first reader; a reader that returns io.EOF is
\* dropped and, if it gave no byte, the next one is read in the same call.
\* bufio.Reader.Read copies from its buffer, or, the buffer being empty,
\* reads the raw connection once (m bytes arrive), into p directly if p is
\* at least as large as the buffer. A read of the raw connection blocks
\* while the client has neither sent nor closed.
RwRead(k) ==
    /\ rdPc = "open"
    /\ IF rdReaders # <<>> /\ Head(rdReaders) = "preface" /\ rdPos < Len(ClientPreface)
         THEN /\ rdGot' = rdGot \o StringsRead(rdPos, k)
              /\ rdPos' = rdPos + Len(StringsRead(rdPos, k))
              /\ rdRet' = <<Len(StringsRead(rdPos, k)), "none">>
              /\ UNCHANGED <<rdBuf, rdWire, rdReaders>>
         ELSE IF rdReaders = <<>>
         THEN /\ rdRet' = <<0, "EOF">>
              /\ UNCHANGED <<rdBuf, rdWire, rdReaders, rdPos, rdGot>>
         ELSE IF rdBuf # <<>>
         THEN /\ rdGot' = rdGot \o Take(rdBuf, Min(k, Len(rdBuf)))
              /\ rdBuf' = Drop(rdBuf, Min(k, Len(rdBuf)))
              /\ rdRet' = <<Min(k, Len(rdBuf)), "none">>
              /\ rdReaders' = <<"rw">>
              /\ UNCHANGED <<rdWire, rdPos>>
         ELSE IF rdWire # <<>>
         THEN /\ \E m \in 1..Min(Len(rdWire), IF k >= BufSize THEN k ELSE BufSize) :
                   /\ rdWire' = Drop(rdWire, m)
                   /\ rdGot' = rdGot \o Take(rdWire, Min(k, m))
                   /\ rdBuf' = Drop(Take(rdWire, m), Min(k, m))
                   /\ rdRet' = <<Min(k, m), "none">>
              /\ rdReaders' = <<"rw">>
              /\ UNCHANGED rdPos
         ELSE /\ rdClosed
              /\ rdReaders' = <<>>
              /\ rdRet' = <<0, "EOF">>
              /\ UNCHANGED <<rdBuf, rdWire, rdPos, rdGot>>
    /\ UNCHANGED <<rdPc, rdRest, rdClosed, notRead>>

\* Arguments of Write.
WriteArgs == SeqsUpTo({"v", "w"}, MaxWrite)

NewWriter == [buf |-> <<>>, err |-> "none"]

WriteInit ==
    /\ wrPc = "idle"
    /\ wrW = NewWriter
    /\ wrOut = <<>>
    /\ wrBroken = FALSE
    /\ wrAll = <<>>
    /\ wrOk = TRUE
    /\ wrRet = <<0, "none">>

\* The state of a bufio.Writer and of the connection under it: st.w is the
\* writer, st.out the bytes the connection has taken.
\* Write of the raw connection with `data`: all of it is written, or, on a
\* broken connection, nothing.
ConnWrite(st, data) ==
    IF wrBroken
      THEN [st EXCEPT !.w.err = "broken"]
      ELSE [st EXCEPT !.out = @ \o data]

\* bufio.Writer.Flush: the sticky error if there is one; nil on an empty
\* buffer; otherwise the buffer is written to the connection.
BufFlush(st) ==
    IF st.w.err # "none" \/ st.w.buf = <<>> THEN st
    ELSE IF wrBroken THEN ConnWrite(st, st.w.buf)
    ELSE [ConnWrite(st, st.w.buf) EXCEPT !.w.buf = <<>>]

\* bufio.Writer.Write(p): while p does not fit and there is no error, a
\* write on an empty buffer goes to the connection directly, otherwise the
\* buffer is filled and flushed; what is left is copied into the buffer.
\* st.n counts the bytes taken.
RECURSIVE BufWrite(_, _)
BufWrite(st, p) ==
    IF Len(p) > BufSize - Len(st.w.buf) /\ st.w.err = "none"
      THEN IF st.w.buf = <<>>
             THEN LET t == ConnWrite(st, p)
                  IN  IF t.w.err # "none" THEN t
                      ELSE BufWrite([t EXCEPT !.n = @ + Len(p)], <<>>)
             ELSE LET k == BufSize - Len(st.w.buf)
                      t == BufFlush([st EXCEPT !.w.buf = @ \o Take(p, k)])
                  IN  BufWrite([t EXCEPT !.n = @ + k], Drop(p, k))
    ELSE IF st.w.err # "none" THEN st
    ELSE [st EXCEPT !.w.buf = @ \o p, !.n = @ + Len(p)]

\* Write returns without flushing.
AfterWriteNoFlush(st) == st

\* `if err := c.BufWriter.Flush(); err != nil { return 0, err }`: the
\* flush after c.BufWriter.Write(p).
AfterWrite(st) == BufFlush(st)

\* The upgrade succeeded: BufWriter is rw.Writer, whose buffer is empty
\* (the HTTP/1 engine has written nothing on the connection).
RwOpenWriter ==
    /\ wrPc = "idle"
    /\ wrPc' = "open"
    /\ UNCHANGED <<wrW, wrOut, wrBroken, wrAll, wrOk, wrRet, notWrite>>

\* The raw connection breaks: its writes fail from now on.
RwConnBreak ==
    /\ wrPc = "open"
    /\ ~wrBroken
    /\ wrBroken' = TRUE
    /\ UNCHANGED <<wrPc, wrW, wrOut, wrAll, wrOk, wrRet, notWrite>>

\* rwConn.Write(p): n, err := c.BufWriter.Write(p); the flush; `return 0,
\* err` if the flush failed, `return n, err` otherwise.
RwWrite(p) ==
    /\ wrPc = "open"
    /\ Len(wrAll) + Len(p) <= 2 * MaxWrite
    /\ LET written == BufWrite([w |-> wrW, out |-> wrOut, n |-> 0], p)
           flushed == AfterWrite(written)
           ferr == IF flushed.w.err # "none" THEN flushed.w.err
                   ELSE "none"
       IN  /\ wrW' = flushed.w
           /\ wrOut' = flushed.out
           /\ wrRet' = IF ferr # "none" THEN <<0, ferr>>
                        ELSE <<written.n, written.w.err>>
           /\ wrOk' = (wrOk /\ wrRet'[2] = "none")
    /\ wrAll' = wrAll \o p
    /\ UNCHANGED <<wrPc, wrBroken, notWrite>>

(* TLS and OptionalTLS sockets (tls.go:22-77, 161-170) *)

\* Longest NextProtos list of a caller's configuration.
MaxProtos == 2

\* A tls.Config: NextProtos (nil, or a list that may be empty) and, of its
\* other fields, ServerName.
TLSConfigs ==
    [protosNil : {FALSE}, protos : SeqsUpTo({"h2", "http/1.1"}, MaxProtos),
     name : {"a", "b"}]
    \cup [protosNil : {TRUE}, protos : {<<>>}, name : {"a", "b"}]

NoConfig == [protosNil |-> TRUE, protos |-> <<>>, name |-> ""]

\* Timeouts given to OptionalTLS, in milliseconds.
Timeouts == {-1, 0, 1}

TLSInit ==
    /\ tlPc = "idle"
    /\ tlCaller = NoConfig
    /\ tlCaller0 = NoConfig
    /\ tlClone = NoConfig
    /\ tlCloned = FALSE
    /\ tlUses = "none"
    /\ tlOptional = FALSE
    /\ tlTimeout = 0
    /\ tlLn = <<"none", "none">>

\* NextProtos is set to ["h2"] in the caller's configuration.
DefaultNextProtosInPlace(c) ==
    IF ~c.protosNil
      THEN [uses |-> "caller", caller |-> c, cloned |-> FALSE, clone |-> NoConfig]
      ELSE [uses |-> "caller",
            caller |-> [c EXCEPT !.protosNil = FALSE, !.protos = <<"h2">>],
            cloned |-> FALSE, clone |-> NoConfig]

\* defaultNextProtosH2(c): `if c.NextProtos != nil { return c }; c =
\* c.Clone(); c.NextProtos = []string{http2.NextProtoTLS}; return c`. The
\* result names the object returned and gives the two objects after the
\* call.
DefaultNextProtosH2(c) ==
    IF ~c.protosNil
      THEN [uses |-> "caller", caller |-> c, cloned |-> FALSE, clone |-> NoConfig]
      ELSE [uses |-> "clone", caller |-> c, cloned |-> TRUE,
            clone |-> [c EXCEPT !.protosNil = FALSE, !.protos = <<"h2">>]]

\* `if timeout <= 0 { timeout = 50 * time.Millisecond }`
DefaultTimeout(t) == IF t <= 0 THEN 50 ELSE t

\* TLS(address, c) or OptionalTLS(address, c, timeout) is called with the
\* configuration c and returns the socket.
TLSNewSocket(optional, c, timeout) ==
    /\ tlPc = "idle"
    /\ ~optional => timeout = 0
    /\ tlCaller0' = c
    /\ LET d == DefaultNextProtosH2(c)
       IN  /\ tlCaller' = d.caller
           /\ tlClone' = d.clone
           /\ tlCloned' = d.cloned
           /\ tlUses' = d.uses
    /\ tlOptional' = optional
    /\ tlTimeout' = IF optional THEN DefaultTimeout(timeout) ELSE 0
    /\ tlPc' = "built"
    /\ UNCHANGED <<tlLn, notTLS>>

\* tlsListener.Listen: the error of l.Socket.Listen, or
\* tls.NewListener(ln, l.TLSConfig), or, for an optional socket, a
\* tlsAcceptor with l.TLSConfig and l.Timeout.
TLSListen(ok) ==
    /\ tlPc = "built"
    /\ IF ok
         THEN /\ tlPc' = "listening"
              /\ tlLn' = <<IF tlOptional THEN "acceptor" ELSE "tls", tlUses>>
         ELSE /\ tlPc' = "failed"
              /\ UNCHANGED tlLn
    /\ UNCHANGED <<tlCaller, tlCaller0, tlClone, tlCloned, tlUses, tlOptional,
                   tlTimeout, notTLS>>

(* The three methods of the tracking set called in any order *)

\* Calls made to the methods of the tracking set.
MaxCalls == 4

TrackInit == trkLog = <<>>

\* A call of `method` on connection c is made and logged.
Logged(method, c) ==
    /\ Len(trkLog) < MaxCalls
    /\ connsMu = 0
    /\ trkLog' = Append(trkLog, <<method, c>>)

\* addPending(c): c is a new object (c := &rwConn{}), never registered
\* before.
TrackAddPending(c) ==
    /\ Logged("addPending", c)
    /\ \A i \in 1..Len(trkLog) : trkLog[i] # <<"addPending", c>>
    /\ AddPendingEntry(c)
    /\ UNCHANGED notTrack

\* setTracked(c): any notification of the HTTP/2 engine, for a connection
\* that is pending, tracked, removed or was never registered.
TrackSetTracked(c) ==
    /\ Logged("setTracked", c)
    /\ SetTrackedEntry(c)
    /\ UNCHANGED <<serveWG, notTrack>>

\* removeConn(c), for any connection.
TrackRemoveConn(c) ==
    /\ Logged("removeConn", c)
    /\ RemoveConn(c)
    /\ UNCHANGED notTrack

\* The components that share nothing with the server's run, before their
\* first call.
MoreInit == ProtoInit /\ ReadInit /\ WriteInit /\ TLSInit /\ TrackInit

AloneInit == MuxInit /\ QuoteInit /\ HookInit /\ MoreInit

GateTaskStep(t) ==
    \/ EngineCall(t)
    \/ GateLock(t)
    \/ GateRead(t)
    \/ GateAdd(t)
    \/ GateUnlock(t)
    \/ GateAbort(t)
    \/ InnerEnter(t)
    \/ InnerEnd(t)
    \/ ExitOnPanic(t)

InitGate == RunInit /\ GateInit /\ ProcInit /\ SniffInit /\ CloseInit /\ H2CInit /\ ~cleartext
            /\ AloneInit

NextGate ==
    \/ \E t \in Tasks : GateTaskStep(t)
    \/ StopCall
    \/ StopLock
    \/ StopSet
    \/ StopUnlock
    \/ StopWait

SpecGate == InitGate /\ [][NextGate]_vars

InitSniff == RunInit /\ SniffInit /\ GateInit /\ ProcInit /\ CloseInit /\ H2CInit /\ ~cleartext
             /\ AloneInit

NextSniff ==
    \/ \E b \in SniffBytes : ClientSend(b)
    \/ ClientClose
    \/ SniffBegin
    \/ SniffPeekOk
    \/ SniffPeekFail
    \/ BufferedConnRead

SpecSniff == InitSniff /\ [][NextSniff]_vars

InitClose == RunInit /\ CloseInit /\ GateInit /\ ProcInit /\ SniffInit /\ H2CInit /\ ~cleartext
             /\ AloneInit

NextClose ==
    \/ \E k \in Closers, l \in Wrappers : CloseCall(k, l)
    \/ \E k \in Closers : OnceLoad(k)
    \/ \E k \in Closers : OnceLock(k)
    \/ \E k \in Closers : OnceRun(k)
    \/ \E k \in Closers : OnceUnlock(k)
    \/ \E k \in Closers : CloseReturn(k)

SpecClose == InitClose /\ [][NextClose]_vars

InitH2C == RunInit /\ H2CInit /\ GateInit /\ ProcInit /\ SniffInit /\ CloseInit /\ cleartext
           /\ AloneInit

NextH2C ==
    \/ \E c \in H2Conns, r \in Requests : H2CServeHTTP(c, r)
    \/ \E c \in H2Conns : H2CFallbackReturn(c)
    \/ \E c \in H2Conns : H2CNoHijacker(c)
    \/ \E c \in H2Conns : AddPending(c)
    \/ \E c \in H2Conns : H2CHijack(c)
    \/ \E c \in H2Conns, tail \in Tails : H2CReadPreface(c, tail)
    \/ \E c \in H2Conns : H2CInitReturn(c)
    \/ \E c \in H2Conns : H2CAbort(c)
    \/ \E c \in H2Conns : SetTracked(c)
    \/ \E c \in H2Conns : H2CServeConnReturn(c)
    \/ CtxExpire
    \/ ShutdownCall
    \/ ShutdownBegin
    \/ ShutdownTrackWait
    \/ ShutdownRunHooks
    \/ ShutdownServeWait
    \/ ShutdownReturn
    \/ WatcherDone
    \/ CloseConnsLock
    \/ \E c \in H2Conns : CloseConnsOne(c)
    \/ CloseConnsUnlock

SpecH2C == InitH2C /\ [][NextH2C]_vars

\* The steps of h2cHandler.Shutdown and of the goroutine it starts.
ShutdownStep ==
    \/ ShutdownCall
    \/ ShutdownBegin
    \/ ShutdownTrackWait
    \/ ShutdownRunHooks
    \/ ShutdownServeWait
    \/ ShutdownReturn
    \/ WatcherDone
    \/ CloseConnsLock
    \/ \E c \in H2Conns : CloseConnsOne(c)
    \/ CloseConnsUnlock

\* The steps of the handler calls: a call in progress goes on (a read of
\* the preface ends when the client has sent it or the connection is
\* closed, ServeConn ends at the latest when its connection is closed).
HandlerStep ==
    \/ \E c \in H2Conns : H2CFallbackReturn(c)
    \/ \E c \in H2Conns : H2CNoHijacker(c)
    \/ \E c \in H2Conns : AddPending(c)
    \/ \E c \in H2Conns : H2CHijack(c)
    \/ \E c \in H2Conns, tail \in Tails : H2CReadPreface(c, tail)
    \/ \E c \in H2Conns : H2CInitReturn(c)
    \/ \E c \in H2Conns : H2CAbort(c)
    \/ \E c \in H2Conns : H2CServeConnReturn(c)

\* The H2C coordinator under fair scheduling: ctx is eventually done, every
\* handler call in progress goes on, Shutdown is called once the HTTP/1
\* engine is shut down and its steps and its goroutine are scheduled.
SpecH2CFair ==
    /\ SpecH2C
    /\ WF_vars(CtxExpire)
    /\ WF_vars(HandlerStep)
    /\ WF_vars(ShutdownStep)

RunTaskStep(t) ==
    \/ H1Request(t)
    \/ H1Hijacked(t)
    \/ BackgroundRequest(t)
    \/ GateLock(t)
    \/ GateRead(t)
    \/ GateAdd(t)
    \/ GateUnlock(t)
    \/ GateAbort(t)
    \/ InnerEnter(t)
    \/ InnerEnd(t)
    \/ ExitOnPanic(t)

\* Server.Run with its handler calls; the group of runners is taken as one
\* call.
Init == RunInit /\ GateInit /\ ProcInit /\ SniffInit /\ CloseInit /\ H2CInit
        /\ AloneInit

Next ==
    \/ RunConfigure
    \/ ListenAndServeStart
    \/ ListenAndServeFail
    \/ ListenAndServeStop
    \/ \E r \in Runners : ConnNew(r)
    \/ ConnClosed
    \/ \E t \in Tasks : RunTaskStep(t)
    \/ CtxExpire
    \/ RunProcsDone
    \/ RunConnWait
    \/ ShutdownBegin
    \/ ShutdownTrackWait
    \/ ShutdownRunHooks
    \/ ShutdownServeWait
    \/ ShutdownReturn
    \/ WatcherDone
    \/ CloseConnsLock
    \/ CloseConnsUnlock
    \/ RunH2CShutdownDone
    \/ StopLock
    \/ StopSet
    \/ StopUnlock
    \/ StopWait
    \/ RunReturn

Spec == Init /\ [][Next]_vars

\* The runners of Server.Run, step by step, up to the return of
\* listenAndServe.Run.
RunnerStep(r) ==
    \/ RunnerListen(r)
    \/ RunnerCallbackReturn(r)
    \/ OnceDoRun(r)
    \/ OnceDoSkip(r)
    \/ OnceDoReturn(r)
    \/ RunnerClose(r)
    \/ ServeReturn(r)

\* (s.h2.Cleartext plays no part before listenAndServe.Run returns)
InitRunners == Init /\ ~cleartext

NextRunners ==
    \/ RunConfigure
    \/ \E r \in Runners : RunnerStep(r)
    \/ ParallelCallback
    \/ ParallelCallbackReturn
    \/ CtxExpire
    \/ RunProcsDone

SpecRunners == InitRunners /\ [][NextRunners]_vars

-----------------------------------------------------------------------------
(* The TCP runner step by step, with the connections of the HTTP/1 engine *)

\* States of a connection of the HTTP/1 engine. "accepted": Accept returned
\* it and the serve loop has not yet reported it; "new", "active", "idle",
\* "hijacked", "closed": the last state reported through ConnState, "late"
\* being "active" for a handler call that began after s.d.Do had started the
\* shutdown; "shut": closed by Shutdown while idle; "forced", "forcedActive",
\* "forcedLate": closed by s.h.Close() while new or idle, active, late. In
\* the last four the connection is out of the engine's set and its
\* goroutine has yet to report it closed.
H1ConnStates ==
    {"none", "accepted", "new", "active", "late", "idle", "shut", "forced",
     "forcedActive", "forcedLate", "hijacked", "closed"}

\* The connections the engine tracks (http.Server.activeConn).
ActiveConn == {c \in H1Conns : cstate[c] \in {"new", "active", "late", "idle"}}

\* A handler call is in progress on the connection.
InHandler(c) == cstate[c] \in {"active", "late", "forcedActive", "forcedLate"}

\* connTrack without the case of http.StateHijacked.
ConnTrackNoHijack(state, n) ==
    IF state = "new" THEN n + 1
    ELSE IF state = "closed" THEN n - 1
    ELSE n

\* Server.connTrack: the value of s.connWG after the hook ran for `state`.
ConnTrack(state, n) ==
    IF state = "new" THEN n + 1
    ELSE IF state \in {"hijacked", "closed"} THEN n - 1
    ELSE n

notH1 == <<gateVars, procVars, sniffVars, aloneVars, closeVars, h2cVars, h2cShutVars, ctxVars,
           runPc, cleartext, tsync, errVars>>

\* s.h.Serve(l) of a TCP runner: Accept returns a connection. A loop that
\* was started after the engine was shut down returns without accepting.
H1Accept(r) ==
    /\ ~exited
    /\ Family(r) = "tcp"
    /\ serve[r] = "running"
    /\ lnState[r] = "open"
    /\ ~h1InShutdown
    /\ pend[r] = 0
    /\ \E c \in H1Conns :
        /\ cstate[c] = "none"
        /\ \A d \in H1Conns : d < c => cstate[d] # "none"
        /\ cstate' = [cstate EXCEPT ![c] = "accepted"]
        /\ pend' = [pend EXCEPT ![r] = c]
    /\ UNCHANGED <<runnerVars, connWG, h1sh, nForce, notH1>>

\* The serve loop reports the accepted connection as http.StateNew (the
\* engine adds it to its set whether or not it is shutting down; connTrack
\* runs) and starts its goroutine.
H1TrackNew(r) ==
    /\ ~exited
    /\ pend[r] # 0
    /\ cstate' = [cstate EXCEPT ![pend[r]] = "new"]
    /\ connWG' = ConnTrack("new", connWG)
    /\ pend' = [pend EXCEPT ![r] = 0]
    /\ UNCHANGED <<runnerVars, h1sh, nForce, notH1>>

\* The goroutine of connection c reports state st through ConnState:
\* active when a request is read and the handler called, idle when the
\* handler returned and the connection is kept (not while shutting down),
\* hijacked from inside the handler, closed when the goroutine ends.
H1ConnReport(c, st) ==
    /\ ~exited
    /\ \/ /\ st = "active"
          /\ cstate[c] \in {"new", "idle"}
          /\ cstate' = [cstate EXCEPT ![c] =
                          IF once["tcp"] = "fresh" THEN "active" ELSE "late"]
       \/ /\ st = "idle"
          /\ cstate[c] \in {"active", "late"}
          /\ ~h1InShutdown
          /\ cstate' = [cstate EXCEPT ![c] = "idle"]
       \/ /\ st = "hijacked"
          /\ InHandler(c)
          /\ cstate' = [cstate EXCEPT ![c] = "hijacked"]
       \/ /\ st = "closed"
          /\ cstate[c] \in {"new", "active", "late", "idle", "shut", "forced",
                            "forcedActive", "forcedLate"}
          /\ cstate' = [cstate EXCEPT ![c] = "closed"]
    /\ connWG' = ConnTrack(st, connWG)
    /\ UNCHANGED <<runnerVars, pend, h1sh, nForce, notH1>>

\* s.h.Shutdown(ctx), after it has set the shutdown flag and closed the
\* listeners (OnceDoRun): what it waits for depends on the net/http of the
\* toolchain, and go.mod admits both. Since Go 1.20 it first waits, whatever
\* happens to ctx, for every serve loop to return ("lnwait") and then polls
\* the connections; before, it polls `closeIdleConns() && numListeners() ==
\* 0` ("poll19", "checkln").
H1ShutdownStart ==
    /\ ~exited
    /\ once["tcp"] = "running"
    /\ h1sh = "idle"
    /\ h1sh' \in {"lnwait", "poll19"}
    /\ UNCHANGED <<runnerVars, connWG, cstate, pend, nForce, notH1>>

\* No serve loop of the engine is running.
NoListeners == \A r \in TCPRunners : serve[r] # "running"

\* Shutdown since Go 1.20: srv.listenerGroup.Wait() returns.
H1ListenersWait ==
    /\ ~exited
    /\ h1sh = "lnwait"
    /\ NoListeners
    /\ h1sh' = "poll"
    /\ UNCHANGED <<runnerVars, connWG, cstate, pend, nForce, notH1>>

\* One round of Shutdown's poll: closeIdleConns closes the idle connections
\* (and the new ones that have been new for five seconds: stale) and tells
\* whether every connection of the set was closed.
H1CloseIdleConns ==
    /\ ~exited
    /\ h1sh \in {"poll", "poll19"}
    /\ \E stale \in BOOLEAN :
        LET gone == {c \in H1Conns : \/ cstate[c] = "idle"
                                     \/ stale /\ cstate[c] = "new"}
        IN /\ cstate' = [c \in H1Conns |-> IF c \in gone THEN "shut" ELSE cstate[c]]
           /\ h1sh' = IF ActiveConn \subseteq gone
                        THEN (IF h1sh = "poll" THEN "nil" ELSE "checkln")
                        ELSE h1sh
    /\ UNCHANGED <<runnerVars, connWG, pend, nForce, notH1>>

\* Shutdown before Go 1.20: the second operand of its test,
\* srv.numListeners() == 0.
H1CheckListeners ==
    /\ ~exited
    /\ h1sh = "checkln"
    /\ h1sh' = IF NoListeners THEN "nil" ELSE "poll19"
    /\ UNCHANGED <<runnerVars, connWG, cstate, pend, nForce, notH1>>

\* Shutdown's select takes `case <-ctx.Done(): return ctx.Err()`.
H1ShutdownExpire ==
    /\ ~exited
    /\ h1sh \in {"poll", "poll19", "checkln"}
    /\ ctxDone
    /\ h1sh' = "err"
    /\ UNCHANGED <<runnerVars, connWG, cstate, pend, nForce, notH1>>

\* s.h.Close() on the connections: every connection of the engine's set is
\* closed and taken out of the set.
ForceClosed ==
    [c \in H1Conns |->
        IF cstate[c] \in {"new", "idle"} THEN "forced"
        ELSE IF cstate[c] = "active" THEN "forcedActive"
        ELSE IF cstate[c] = "late" THEN "forcedLate"
        ELSE cstate[c]]

\* gracefulShutdown after s.h.Shutdown(ctx) returned: `if err == nil ||
\* ctx.Err() == nil { return }; _ = s.h.Close()`; then Do returns.
\* gracefulShutdown never goes on to s.h.Close().
ReturnsAfterShutdownAlways == TRUE

\* `if err == nil || ctx.Err() == nil { return }` of gracefulShutdown.
ReturnsAfterShutdown == h1sh = "nil" \/ ~ctxDone

H1GracefulReturn(r) ==
    /\ ~exited
    /\ Family(r) = "tcp"
    /\ rpc[r] = "shutwait"
    /\ h1sh \in {"nil", "err"}
    /\ IF ReturnsAfterShutdown
         THEN UNCHANGED <<cstate, lnState>>
         ELSE cstate' = ForceClosed /\ lnState' = EngineClosesListeners
    /\ once' = [once EXCEPT !["tcp"] = "done"]
    /\ rpc' = [rpc EXCEPT ![r] = "close"]
    /\ UNCHANGED <<listenErr, pcState, serve, fgDone, cb, groupStop, nShutdown,
                   h1InShutdown, h3Closed, connWG, pend, h1sh, nForce, notH1>>

\* The runner closes the engine after Do only if Shutdown did not end
\* gracefully.
ForceCloseOnExpiryOnly == h1sh = "err"

\* The runner closes the engine after Do in every case.
ForceCloseAlways == TRUE

\* `_ = s.h.Close()` of the runner, after Do.
RunnerForceClose(r) ==
    /\ ~exited
    /\ Family(r) = "tcp"
    /\ rpc[r] = "close"
    /\ IF ForceCloseAlways
         THEN /\ cstate' = ForceClosed
              /\ lnState' = EngineClosesListeners
              /\ h1InShutdown' = TRUE
              /\ nForce' = [nForce EXCEPT ![r] = @ + 1]
         ELSE UNCHANGED <<cstate, lnState, h1InShutdown, nForce>>
    /\ rpc' = [rpc EXCEPT ![r] = "lnclose"]
    /\ UNCHANGED <<listenErr, pcState, serve, fgDone, cb, groupStop, once,
                   nShutdown, h3Closed, connWG, pend, h1sh, notH1>>

\* closeError := l.Close(); serveError := <-errc; the runner returns. (Serve
\* of the engine does not wait for this Close: the engine has closed the
\* listener it registered.)
RunnerCollect(r) ==
    /\ ~exited
    /\ rpc[r] = "lnclose"
    /\ serve[r] = "sent"
    /\ lnState' = [lnState EXCEPT ![r] = "closed"]
    /\ rpc' = [rpc EXCEPT ![r] = "done"]
    /\ UNCHANGED <<listenErr, pcState, serve, fgDone, cb, groupStop, once,
                   nShutdown, h1InShutdown, h3Closed, connWG, h1Vars, notH1>>

\* The QUIC runners, taken together: each has listened and started its serve
\* goroutine and is in the callback of the group. They do not interact with
\* the TCP runners before the group stops, so they are taken first.
QuicUnitsStart ==
    /\ ~exited
    /\ runPc = "procs"
    /\ \A r \in TCPRunners : rpc[r] = "listen"
    /\ \A r \in UDPRunners : rpc[r] = "listen"
    /\ rpc' = [r \in Runners |-> IF r \in UDPRunners THEN "callback" ELSE rpc[r]]
    /\ lnState' = [r \in Runners |-> IF r \in UDPRunners THEN "open" ELSE lnState[r]]
    /\ pcState' = [r \in UDPRunners |-> "open"]
    /\ serve' = [r \in Runners |-> IF r \in UDPRunners THEN "running" ELSE serve[r]]
    /\ UNCHANGED <<listenErr, fgDone, cb, groupStop, once, nShutdown, h1InShutdown,
                   h3Closed, connWG, h1Vars, notH1>>

\* The QUIC runners, taken together: the group stops or ctx is done, each
\* runs the steps of serveH3.Run after the callback and returns. Nothing
\* waits for them but the group, so they are taken last.
QuicUnitsStop ==
    /\ ~exited
    /\ \A r \in UDPRunners : rpc[r] = "callback"
    /\ groupStop \/ ctxDone
    /\ \A r \in TCPRunners : rpc[r] = "done"
    /\ rpc' = [r \in Runners |-> IF r \in UDPRunners THEN "done" ELSE rpc[r]]
    /\ lnState' = [r \in Runners |-> IF r \in UDPRunners THEN "closed" ELSE lnState[r]]
    /\ pcState' = [r \in UDPRunners |-> "closed"]
    /\ serve' = [r \in Runners |-> IF r \in UDPRunners THEN "sent" ELSE serve[r]]
    /\ fgDone' = [r \in Runners |-> r \in UDPRunners \/ fgDone[r]]
    /\ once' = [once EXCEPT !["udp"] = "done"]
    /\ nShutdown' = [nShutdown EXCEPT !["udp"] = 1]
    /\ h3Closed' = TRUE
    /\ groupStop' = TRUE
    /\ UNCHANGED <<listenErr, cb, h1InShutdown, connWG, h1Vars, notH1>>

\* The Listen calls of the units do not depend on each other: they are
\* taken in the order of the units, the QUIC units first.
ListenTurn(r) ==
    /\ \A q \in UDPRunners : rpc[q] # "listen"
    /\ \A q \in TCPRunners : q[2] < r[2] => rpc[q] # "listen"

H1RunnerStep(r) ==
    \/ Family(r) = "tcp" /\ ListenTurn(r) /\ RunnerListen(r)
    \/ Family(r) = "tcp" /\ RunnerCallbackReturn(r)
    \/ Family(r) = "tcp" /\ OnceDoRun(r)
    \/ Family(r) = "tcp" /\ OnceDoSkip(r)
    \/ H1GracefulReturn(r)
    \/ RunnerForceClose(r)
    \/ RunnerCollect(r)
    \/ Family(r) = "tcp" /\ ServeReturn(r)
    \/ H1Accept(r)
    \/ H1TrackNew(r)

\* HTTP/2 in cleartext is off: its part of Run is covered by SpecH2C.
InitH1 == Init /\ ~cleartext

NextH1 ==
    \/ RunConfigure
    \/ \E r \in Runners : H1RunnerStep(r)
    \/ QuicUnitsStart
    \/ QuicUnitsStop
    \/ ParallelCallback
    \/ ParallelCallbackReturn
    \/ \E c \in H1Conns, st \in {"active", "idle", "hijacked", "closed"} :
          H1ConnReport(c, st)
    \/ H1ShutdownStart
    \/ H1ListenersWait
    \/ H1CloseIdleConns
    \/ H1CheckListeners
    \/ H1ShutdownExpire
    \/ CtxExpire
    \/ RunProcsDone
    \/ RunConnWait

SpecH1 == InitH1 /\ [][NextH1]_vars

-----------------------------------------------------------------------------
(* One runner's Run with the values of its errors *)

\* The error values of the model: "nil", the engines' shutdown sentinels,
\* the error of a failed Accept, of the callback, of the underlying
\* listener's Close, of the packet socket's Close, and context's error.
\* None of them wraps another: errors.Is is equality.
ErrorsIs(e, target) == e = target

\* The sentinels a runner of the family compares its serve error with.
Sentinels(f) ==
    IF f = "tcp" THEN {"http.ErrServerClosed"}
                 ELSE {"quic.ErrServerClosed", "http.ErrServerClosed"}

\* The serve error is passed on as it is.
NormalizeKeepsSentinel(f, e) == e

\* `if errors.Is(serveError, ...) { serveError = nil }`.
NormalizeServeError(f, e) ==
    IF \E t \in Sentinels(f) : ErrorsIs(e, t) THEN "nil" ELSE e

\* The first non-nil error only.
CombineFirstWins(errs) ==
    LET nonNil == SelectSeq(errs, LAMBDA e : e # "nil")
    IN IF nonNil = <<>> THEN <<>> ELSE <<Head(nonNil)>>

\* multierr.Combine(errs...): the non-nil errors, in order (nil if none).
Combine(errs) == SelectSeq(errs, LAMBDA e : e # "nil")

\* The error Serve of the HTTP/1 engine returns: ErrServerClosed when the
\* engine is shutting down, else the error of Accept. ServeListener of the
\* HTTP/3 engine returns the error of Accept or, once the engine or the
\* listener is closed, one of the sentinels.
ServeErrors(r) ==
    IF Family(r) = "tcp"
      THEN (IF h1InShutdown THEN {"http.ErrServerClosed"} ELSE {"accept"})
      ELSE {"accept"} \cup
           (IF h3Closed \/ lnState[r] = "closed" THEN Sentinels("udp") ELSE {})

\* The listener wrapper of r after a Close with result e of the underlying
\* Close: only the first Close reaches the underlying listener.
WrapperClose(r, e) == IF closeErr[r] = "unset" THEN e ELSE closeErr[r]

\* The listener of r is registered with the HTTP/1 engine (trackListener):
\* its Serve loop is running.
Registered(r) == Family(r) = "tcp" /\ serve[r] = "running"

\* Listen of a unit. The runner the specification follows is the one that
\* listens first; a unit started later fails in Listen, which stops the
\* group, and no unit is started once the group is stopping.
ErrUnitListen(r) ==
    /\ ~groupStop
    /\ RunnerListen(r)
    /\ listenErr'[r] = "none" => \A q \in Runners \ {r} : lnState[q] = "none"

\* `err := s.h.Serve(l)` / `s.h.ServeListener(l)` returns in the serve
\* goroutine. Serve of the HTTP/1 engine closes the listener it was given
\* (its deferred l.Close()).
ErrServeExit(r) ==
    /\ ~exited
    /\ serve[r] = "running"
    /\ \E e \in ServeErrors(r), ce \in {"nil", "close"} :
        /\ serveErr' = [serveErr EXCEPT ![r] = e]
        /\ IF Family(r) = "tcp"
             THEN /\ lnState' = [lnState EXCEPT ![r] = "closed"]
                  /\ closeErr' = [closeErr EXCEPT ![r] = WrapperClose(r, ce)]
             ELSE ce = "nil" /\ UNCHANGED <<lnState, closeErr>>
    /\ serve' = [serve EXCEPT ![r] = "exited"]
    /\ UNCHANGED <<runPc, cleartext, rpc, listenErr, pcState, fgDone, cb,
                   groupStop, once, nShutdown, h1InShutdown, h3Closed, connWG,
                   tsync, gateVars, h2cShutVars, ctxVars, procVars, sniffVars, aloneVars,
                   closeVars, h2cVars, h1Vars, cbErr, pcErr, engErr, ret>>

\* The serve goroutine sends the error before it cancels fgctx.
SendBeforeCancel(st) == IF st = "exited" THEN "sentearly" ELSE "sent"

\* The serve goroutine after Serve returned: cancel(), then errc <- err.
ServeGoroutineNext(st) == IF st = "exited" THEN "cancelled" ELSE "sent"

\* The two statements of the serve goroutine after Serve: `cancel()` and
\* `errc <- err` (errc has room for the one value).
ErrServeStep(r) ==
    /\ ~exited
    /\ serve[r] \in {"exited", "cancelled", "sentearly"}
    /\ serve' = [serve EXCEPT ![r] = ServeGoroutineNext(@)]
    /\ fgDone' = [fgDone EXCEPT ![r] =
                    @ \/ serve'[r] = "cancelled" \/ serve[r] = "sentearly"]
    /\ UNCHANGED <<runPc, cleartext, rpc, listenErr, lnState, pcState, cb,
                   groupStop, once, nShutdown, h1InShutdown, h3Closed, connWG,
                   tsync, gateVars, h2cShutVars, ctxVars, notRun>>

\* The error value is available on errc.
ErrcFull(r) == serve[r] \in {"sent", "sentearly"}

\* `callbackError := callback(fgctx)` returns, with or without an error:
\* the group stops, fgctx is cancelled or ctx is done.
ErrCallbackReturn(r) ==
    /\ ~exited
    /\ rpc[r] = "callback"
    /\ groupStop \/ fgDone[r] \/ ctxDone
    /\ \E e \in {"nil", "callback"} : cbErr' = [cbErr EXCEPT ![r] = e]
    /\ rpc' = [rpc EXCEPT ![r] = "once"]
    /\ groupStop' = TRUE
    /\ UNCHANGED <<runPc, cleartext, listenErr, lnState, pcState, serve, fgDone,
                   cb, once, nShutdown, h1InShutdown, h3Closed, connWG, tsync,
                   gateVars, h2cShutVars, ctxVars, procVars, sniffVars, aloneVars,
                   closeVars, h2cVars, h1Vars, serveErr, closeErr, pcErr,
                   engErr, ret>>

\* s.d.Do runs its function: s.h.Shutdown(ctx) is called. The HTTP/1 engine
\* sets its shutdown flag and closes the listeners registered with it.
ErrShutdownCall(r) ==
    /\ ~exited
    /\ rpc[r] = "once"
    /\ OnceFresh(Family(r))
    /\ once' = [once EXCEPT ![Family(r)] = "running"]
    /\ nShutdown' = [nShutdown EXCEPT ![Family(r)] = @ + 1]
    /\ h1InShutdown' = (h1InShutdown \/ Family(r) = "tcp")
    /\ h3Closed' = (h3Closed \/ Family(r) = "udp")
    /\ \E ce \in {"nil", "close"} :
         IF Registered(r)
           THEN /\ lnState' = [lnState EXCEPT ![r] = "closed"]
                /\ closeErr' = [closeErr EXCEPT ![r] = WrapperClose(r, ce)]
           ELSE ce = "nil" /\ UNCHANGED <<lnState, closeErr>>
    /\ rpc' = [rpc EXCEPT ![r] = "shutwait"]
    /\ UNCHANGED <<runPc, cleartext, listenErr, pcState, serve, fgDone, cb,
                   groupStop, connWG, tsync, gateVars, h2cShutVars, ctxVars,
                   procVars, sniffVars, aloneVars, closeVars, h2cVars, h1Vars, cbErr,
                   serveErr, pcErr, engErr, ret>>

\* The error s.h.Close() of the HTTP/1 engine returns: that of closing the
\* listeners still registered.
EngineCloseError(r) == IF Registered(r) THEN closeErr'[r] ELSE "nil"

\* s.h.Shutdown(ctx) returns: nil (or, from the HTTP/1 engine, the error
\* of closing a listener; from the HTTP/3 engine, an error of its own) once
\* no serve loop is left, or ctx's error; its error is dropped. For the
\* HTTP/1 engine gracefulShutdown then calls s.h.Close() if the error and
\* ctx.Err() are both non-nil, and drops its error too. Do returns.
ErrShutdownReturn(r) ==
    /\ ~exited
    /\ rpc[r] = "shutwait"
    /\ \E e \in {"nil", "close", "shutdown", "context"}, ce \in {"nil", "close"} :
        /\ e = "context" => ctxDone
        /\ Family(r) = "tcp" /\ e # "context" => serve[r] # "running"
        /\ e = "close" => Family(r) = "tcp" /\ closeErr[r] = "close"
        /\ e = "shutdown" => Family(r) = "udp"
        /\ IF Family(r) = "tcp" /\ e # "nil" /\ ctxDone /\ Registered(r)
             THEN /\ lnState' = [lnState EXCEPT ![r] = "closed"]
                  /\ closeErr' = [closeErr EXCEPT ![r] = WrapperClose(r, ce)]
                  /\ engErr' = [engErr EXCEPT ![r] =
                                  (@ \cup {e, EngineCloseError(r)}) \ {"nil"}]
             ELSE /\ ce = "nil"
                  /\ UNCHANGED <<lnState, closeErr>>
                  /\ engErr' = [engErr EXCEPT ![r] = (@ \cup {e}) \ {"nil"}]
    /\ once' = [once EXCEPT ![Family(r)] = "done"]
    /\ rpc' = [rpc EXCEPT ![r] = IF Family(r) = "tcp" THEN "close" ELSE "lnclose"]
    /\ UNCHANGED <<runPc, cleartext, listenErr, pcState, serve, fgDone, cb,
                   groupStop, nShutdown, h1InShutdown, h3Closed, connWG, tsync,
                   gateVars, h2cShutVars, ctxVars, procVars, sniffVars, aloneVars,
                   closeVars, h2cVars, h1Vars, cbErr, serveErr, pcErr, ret>>

\* `_ = s.h.Close()` of a TCP runner after Do.
ErrForceClose(r) ==
    /\ ~exited
    /\ Family(r) = "tcp"
    /\ rpc[r] = "close"
    /\ h1InShutdown' = TRUE
    /\ nForce' = [nForce EXCEPT ![r] = @ + 1]
    /\ \E ce \in {"nil", "close"} :
         IF Registered(r)
           THEN /\ lnState' = [lnState EXCEPT ![r] = "closed"]
                /\ closeErr' = [closeErr EXCEPT ![r] = WrapperClose(r, ce)]
                /\ engErr' = [engErr EXCEPT ![r] =
                                (@ \cup {EngineCloseError(r)}) \ {"nil"}]
           ELSE ce = "nil" /\ UNCHANGED <<lnState, closeErr, engErr>>
    /\ rpc' = [rpc EXCEPT ![r] = "lnclose"]
    /\ UNCHANGED <<runPc, cleartext, listenErr, pcState, serve, fgDone, cb,
                   groupStop, once, nShutdown, h3Closed, connWG, tsync,
                   gateVars, h2cShutVars, ctxVars, procVars, sniffVars, aloneVars,
                   closeVars, h2cVars, cstate, pend, h1sh, cbErr, serveErr,
                   pcErr, ret>>

\* `closeError := l.Close()`.
ErrListenerClose(r) ==
    /\ ~exited
    /\ rpc[r] = "lnclose"
    /\ \E ce \in {"nil", "close"} :
        /\ closeErr[r] # "unset" => ce = "nil"
        /\ closeErr' = [closeErr EXCEPT ![r] = WrapperClose(r, ce)]
    /\ lnState' = [lnState EXCEPT ![r] = "closed"]
    /\ rpc' = [rpc EXCEPT ![r] = "recv"]
    /\ UNCHANGED <<runPc, cleartext, listenErr, pcState, serve, fgDone, cb,
                   groupStop, once, nShutdown, h1InShutdown, h3Closed, connWG,
                   tsync, gateVars, h2cShutVars, ctxVars, procVars, sniffVars, aloneVars,
                   closeVars, h2cVars, h1Vars, cbErr, serveErr, pcErr, engErr,
                   ret>>

\* `serveError := <-errc`, its normalisation, for a QUIC runner
\* `closePacketConnError := pc.Close()`, and the return of
\* multierr.Combine(...).
ErrReturn(r) ==
    /\ ~exited
    /\ rpc[r] = "recv"
    /\ ErrcFull(r)
    /\ \E pe \in {"nil", "pcclose"} :
        /\ Family(r) = "tcp" => pe = "nil"
        /\ pcErr' = IF Family(r) = "udp" THEN [pcErr EXCEPT ![r] = pe] ELSE pcErr
        /\ pcState' = IF Family(r) = "udp" THEN [pcState EXCEPT ![r] = "closed"]
                                          ELSE pcState
        /\ ret' = [ret EXCEPT ![r] =
                     Combine(<<cbErr[r],
                               NormalizeServeError(Family(r), serveErr[r]),
                               closeErr[r], pe>>)]
    /\ rpc' = [rpc EXCEPT ![r] = "done"]
    /\ UNCHANGED <<runPc, cleartext, listenErr, lnState, serve, fgDone, cb,
                   groupStop, once, nShutdown, h1InShutdown, h3Closed, connWG,
                   tsync, gateVars, h2cShutVars, ctxVars, procVars, sniffVars, aloneVars,
                   closeVars, h2cVars, h1Vars, cbErr, serveErr, closeErr,
                   engErr>>

InitErr == Init /\ ~cleartext

NextErr ==
    \/ RunConfigure
    \/ \E r \in Runners :
         \/ ErrUnitListen(r)
         \/ ErrServeExit(r)
         \/ ErrServeStep(r)
         \/ ErrCallbackReturn(r)
         \/ ErrShutdownCall(r)
         \/ ErrShutdownReturn(r)
         \/ ErrForceClose(r)
         \/ ErrListenerClose(r)
         \/ ErrReturn(r)
    \/ CtxExpire

SpecErr == InitErr /\ [][NextErr]_vars

\* One call of the handler returned by GRPC(h, g), for every request.
NextMux ==
    \/ \E req \in MuxRequests : GrpcMuxServeHTTP(req)
    \/ GrpcMuxReturn

InitMux == Init /\ ~cleartext

SpecMux == InitMux /\ [][NextMux]_vars

\* One call of quoteSingle, for every argument.
NextQuote ==
    \/ \E str \in QuoteInputs : QuoteSingleScan(str)
    \/ QuoteSingleRewrite

InitQuote == Init /\ ~cleartext

SpecQuote == InitQuote /\ [][NextQuote]_vars

\* Server.Run builds the HTTP/1 engine, for every table of the user.
NextProto ==
    \/ \E isNil \in BOOLEAN, m \in UserTables : ProtoBuild(isNil, m)
    \/ ProtoConfigure
    \/ ProtoCopyBegin
    \/ \E k \in ProtoNames : ProtoCopyOne(k)
    \/ ProtoCopyEnd

InitProto == Init /\ ~cleartext

SpecProto == InitProto /\ [][NextProto]_vars

\* The reads of one upgraded connection, for every continuation the client
\* sends and every size of read.
NextRead ==
    \/ \E rest \in Rests, nb \in 0..MaxRest : RwUpgrade(rest, nb)
    \/ RwPeerClose
    \/ \E k \in ReadSizes : RwRead(k)

InitRead == Init /\ ~cleartext

SpecRead == InitRead /\ [][NextRead]_vars

\* The writes of one upgraded connection.
NextWrite ==
    \/ RwOpenWriter
    \/ RwConnBreak
    \/ \E p \in WriteArgs : RwWrite(p)

InitWrite == Init /\ ~cleartext

SpecWrite == InitWrite /\ [][NextWrite]_vars

\* One TLS or OptionalTLS socket, for every configuration of the caller.
NextTLS ==
    \/ \E optional \in BOOLEAN, c \in TLSConfigs, t \in Timeouts \cup {0} :
          TLSNewSocket(optional, c, t)
    \/ \E ok \in BOOLEAN : TLSListen(ok)

InitTLS == Init /\ ~cleartext

SpecTLS == InitTLS /\ [][NextTLS]_vars

\* Calls of addPending, setTracked and removeConn in every order.
NextTrack ==
    \/ \E c \in H2Conns : TrackAddPending(c)
    \/ \E c \in H2Conns : TrackSetTracked(c)
    \/ \E c \in H2Conns : TrackRemoveConn(c)

InitTrack == Init /\ cleartext

SpecTrack == InitTrack /\ [][NextTrack]_vars

(* The ConnState hooks: wiring and dispatch *)

\* connStateHook(a, b), a hook being the sequence of functions it calls
\* (nil is <<>>): nil if both are nil, the other if one is nil, else a
\* function that calls a, then b.
ConnStateHook(a, b) ==
    IF a = <<>> /\ b = <<>> THEN <<>>
    ELSE IF a = <<>> THEN b
    ELSE IF b = <<>> THEN a
    ELSE a \o b

\* BaseConfig is h1 itself: the HTTP/2 engine calls h1's ConnState hook.
BaseConnStateOfH1(h1hook) == h1hook

\* newH2CHandler: baseConfig is a new http.Server that takes four fields of
\* h1, and its ConnState is set to a function that calls h2c.setTracked.
BaseConnState(h1hook) == <<"setTracked">>

\* Server.Run builds the engines: h1.ConnState is
\* connStateHook(s.connTrack, s.h1.ConnState), and newH2CHandler sets the
\* hook of the base config given to http2's ServeConn.
HookBuild(user) ==
    /\ hkUser = "unset"
    /\ hkUser' = user
    /\ LET h1hook == ConnStateHook(<<"connTrack">>,
                                   IF user = "set" THEN <<"user">> ELSE <<>>)
       IN /\ hkH1' = h1hook
          /\ hkBase' = BaseConnState(h1hook)
    /\ UNCHANGED <<hkConn, hkH2, hkFrom, hkCalls, hkWG, hkTracked, hkN, notAlone,
                   muxVars, quoteVars>>

\* s.connWG after the hooks of `hook` ran for `state`: only connTrack
\* touches it.
RECURSIVE CountAfter(_, _, _)
CountAfter(hook, state, n) ==
    IF hook = <<>> THEN n
    ELSE CountAfter(Tail(hook), state,
                    IF Head(hook) = "connTrack" THEN ConnTrack(state, n) ELSE n)

\* The HTTP/1 engine reports a state of connection c through
\* h1.ConnState: new, then active and idle in turn, then hijacked (by
\* h2cHandler, for H2C) or closed.
HookH1Notify(c, state) ==
    /\ hkUser # "unset"
    /\ hkN < MaxNotes
    /\ \/ state = "new" /\ hkConn[c] = "none"
       \/ state = "active" /\ hkConn[c] \in {"new", "idle"}
       \/ state = "idle" /\ hkConn[c] = "active"
       \/ state = "hijacked" /\ hkConn[c] = "active"
       \/ state = "closed" /\ hkConn[c] \in {"new", "active", "idle"}
    /\ hkConn' = [hkConn EXCEPT ![c] = state]
    /\ hkFrom' = "h1"
    /\ hkCalls' = hkH1
    /\ hkWG' = CountAfter(hkH1, state, hkWG)
    /\ hkTracked' = [hkTracked EXCEPT ![c] =
                       @ \/ \E i \in 1..Len(hkH1) : hkH1[i] = "setTracked"]
    /\ hkN' = hkN + 1
    /\ UNCHANGED <<hkUser, hkH1, hkBase, hkH2, notAlone, muxVars, quoteVars>>

\* The HTTP/2 engine, serving the hijacked connection c (ServeConn with
\* BaseConfig: h.baseConfig), reports a state through the ConnState of the
\* base config.
HookH2Notify(c, state) ==
    /\ hkConn[c] = "hijacked"
    /\ hkH2[c] # "closed"
    /\ hkN < MaxNotes
    /\ hkH2' = [hkH2 EXCEPT ![c] = state]
    /\ hkFrom' = "h2"
    /\ hkCalls' = hkBase
    /\ hkWG' = CountAfter(hkBase, state, hkWG)
    /\ hkTracked' = [hkTracked EXCEPT ![c] =
                       @ \/ \E i \in 1..Len(hkBase) : hkBase[i] = "setTracked"]
    /\ hkN' = hkN + 1
    /\ UNCHANGED <<hkUser, hkH1, hkBase, hkConn, notAlone, muxVars, quoteVars>>

NextHooks ==
    \/ \E user \in {"nil", "set"} : HookBuild(user)
    \/ \E c \in H2Conns, state \in {"new", "active", "idle", "hijacked", "closed"} :
          HookH1Notify(c, state)
    \/ \E c \in H2Conns, state \in {"new", "active", "idle", "closed"} :
          HookH2Notify(c, state)

InitHooks == Init /\ ~cleartext

SpecHooks == InitHooks /\ [][NextHooks]_vars

-----------------------------------------------------------------------------
(* Properties *)

\* Calls that passed the check of the stopped flag and have not yet left the
\* inner handler.
PassedCheck(t) == ~tstopped[t] /\ tpc[t] \in {"added", "checked", "inner"}

\* A call has come back from the composed handler, one way or another.
Finished(t) == tpc[t] \in {"returned", "aborted", "exit"}

\* C2 as stated: Stop returns only when the in-flight counter is zero and no
\* call that passed the check is inside the inner handler, and no inner
\* handler call begins once Stop has set the stopped flag.
C2_NoInnerCallOnceFlagSet ==
    /\ [](stopPc = "returned" =>
            wg = 0 /\ \A t \in Tasks : ~PassedCheck(t))
    /\ [][\A t \in Tasks :
            (stopped /\ tpc[t] # "inner") => tpc'[t] # "inner"]_vars

\* C2 (amended): the check of the stopped flag and the increment of the
\* in-flight counter are one atomic step with respect to Stop: the counter
\* always counts exactly the calls that passed the check and have not left
\* the inner handler, Stop returns only when it is zero and no such call
\* exists, a call whose check found the flag set never enters the inner
\* handler, and no inner-handler call begins after Stop has returned.
C2_AbortGate ==
    /\ [](mu \in Tasks \/
            wg = Cardinality({t \in Tasks : PassedCheck(t)}))
    /\ [](stopPc = "returned" =>
            wg = 0 /\ \A t \in Tasks : ~PassedCheck(t))
    /\ [][\A t \in Tasks :
            (tpc[t] # "inner" /\ tpc'[t] = "inner") =>
               ~tstopped[t] /\ stopPc # "returned"]_vars

\* C2 witness: Stop has returned after one call ran the inner handler to
\* its end and another call, arriving after the flag was set, was aborted.
C2_Witness ==
    /\ stopPc = "returned"
    /\ \E t \in Tasks : ~tstopped[t] /\ Finished(t)
    /\ \E t \in Tasks : tstopped[t] /\ tpanic[t] = "abort"

\* C3 as stated: a call that found the gate stopped ends with the abort
\* signal propagated to the engine; it never returns normally.
C3_AbortReachesEngine ==
    \A t \in Tasks : (tstopped[t] /\ Finished(t)) => tpc[t] = "aborted"

C5_SniffKeepsBytes ==
    (sniffPc = "returned" /\ ~peekErr) =>
       /\ sentBytes # <<>>
       /\ isTLS <=> (sentBytes[1] = recordTypeHandshake)
       /\ got \o brBuf \o wire = sentBytes

\* C5 witness: a plaintext connection whose bytes, the sniffed one first,
\* were all read from the returned connection.
C5_Witness ==
    /\ sniffPc = "returned" /\ ~peekErr /\ ~isTLS
    /\ Len(got) >= 2 /\ got = sentBytes

C7_CloseOnce ==
    /\ \A l \in Wrappers : nClose[l] <= 1
    /\ \A k \in Closers : cpc[k] = "done" =>
          nClose[cln[k]] = 1 /\ cres[k] = underRes[cln[k]][1]

\* C7 witness: two callers of the same wrapper have both returned the error
\* of the single underlying call.
C7_Witness ==
    \E j, k \in Closers :
       /\ j # k /\ cln[j] = cln[k]
       /\ cpc[j] = "done" /\ cpc[k] = "done"
       /\ cres[j] = "EIO" /\ cres[k] = "EIO"

\* The runner has gone through the s.d.Do(...) of its Run.
PastOnce(r) ==
    \/ rpc[r] \in {"shutwait", "close"}
    \/ rpc[r] = "done" /\ listenErr[r] = "none"

\* The step-by-step runners leave the units, when all have returned, in the
\* state that UnitsReturned describes (S being the units whose Listen
\* succeeded).
UnitsReturnedAgrees ==
    (\A r \in Runners : rpc[r] = "done") =>
        LET S == {r \in Runners : listenErr[r] = "none"}
        IN /\ \A r \in S : serve[r] = "sent" /\ fgDone[r] /\ lnState[r] = "closed"
           /\ \A r \in S \cap UDPRunners : pcState[r] = "closed"
           /\ \A r \in Runners \ S : serve[r] = "none"
           /\ \A f \in Families :
                IF \E r \in S : Family(r) = f
                  THEN once[f] = "done" /\ nShutdown[f] = 1
                  ELSE once[f] = "fresh" /\ nShutdown[f] = 0
           /\ h1InShutdown = (\E r \in S : Family(r) = "tcp")
           /\ h3Closed = (\E r \in S : Family(r) = "udp")
           /\ groupStop

\* C1: in every state after Server.Run has returned, no call is inside the
\* user handler or on its way into it (it passed the check of the stopped
\* flag), and the in-flight counter is zero: the handler is never entered
\* again and no invocation of it is still in flight.
C1_RunReturnQuiesces ==
    runPc = "returned" => wg = 0 /\ \A t \in Tasks : ~PassedCheck(t)

\* Run has returned after serving: cleartext HTTP/2 was enabled and its
\* Shutdown was run, one call went through the user handler and completed,
\* and another call, which found the gate stopped, was aborted.
C1_Witness ==
    /\ runPc = "returned"
    /\ cleartext /\ shPc = "returned"
    /\ \E t \in Tasks : tpc[t] = "returned" /\ ~tstopped[t] /\ tpanic[t] = "none"
    /\ \E t \in Tasks : tpc[t] = "returned" /\ tstopped[t]

\* C8: the shutdown sequence of a protocol family is started at most once
\* in a run, however many runners of the family go through their Do; and a
\* family whose runner has gone through Do has had its own sequence started,
\* whatever the other family did (the two guards are distinct).
C8_ShutdownOncePerFamily ==
    \A f \in Families :
        /\ nShutdown[f] <= 1
        /\ (\E r \in Runners : Family(r) = f /\ PastOnce(r)) => nShutdown[f] = 1

\* Every runner has returned, two or more TCP runners and a QUIC runner have
\* gone through their Do, and each family's sequence has run once.
C8_Witness ==
    /\ \A r \in Runners : rpc[r] = "done"
    /\ Cardinality({r \in TCPRunners : PastOnce(r)}) >= 2
    /\ \E r \in UDPRunners : PastOnce(r)
    /\ \A f \in Families : nShutdown[f] = 1 /\ once[f] = "done"

\* C9 as stated: while the HTTP/2 ServeConn call of an upgraded connection
\* runs, the connection is in the tracking set and serveWG is above zero.
C9_ServingIsTracked ==
    \A c \in H2Conns : hpc[c] = "serving" => conns[c] # "absent" /\ serveWG > 0

\* C10 as stated: once the handler has aborted after a failed initialization
\* the placeholder is not in the tracking set, and the counters are back to
\* what they were before: zero when no attempt is in progress.
C10_FailureUnregisters ==
    /\ \A c \in H2Conns : hpc[c] = "aborted" => conns[c] = "absent"
    /\ (\A c \in H2Conns : hpc[c] \in {"idle", "aborted", "done"}) =>
          trackWG = 0 /\ serveWG = 0

\* The order of the steps of h2cHandler.Shutdown: the hooks run only once
\* trackWG was seen at zero, and the wait for serveWG ends only after the
\* hooks ran and with serveWG at zero.
ShutdownStepsInOrder ==
    [][/\ nHooks' # nHooks => shPc = "hooks" /\ trackWG = 0
       /\ shPc = "trackwait" /\ shPc' # "trackwait" => trackWG = 0
       /\ shPc = "servewait" /\ shPc' # "servewait" => nHooks > 0 /\ serveWG = 0]_vars

\* C11 as stated: Shutdown waits for trackWG, then runs the shutdown hooks
\* of the HTTP/1 engine, then waits for serveWG; and so, when Shutdown has
\* returned, no ServeConn call started through ServeHTTP is still running.
C11_ShutdownOrdering ==
    /\ ShutdownStepsInOrder
    /\ [](shPc = "returned" => \A c \in H2Conns : hpc[c] # "serving")

\* Every connection closeConns takes from the tracking set is closed.
CloseConnsClosesAll ==
    [][\A c \in H2Conns : c \in toClose /\ c \notin toClose' =>
            rawConn'[c] = "closed"]_vars

\* Once closeConns has run, Shutdown is not held by a counter above zero.
WaitsAbandoned ==
    [](watcher = "done" /\ ~doneClosed =>
          /\ ~(shPc = "trackwait" /\ trackWG > 0)
          /\ ~(shPc = "servewait" /\ serveWG > 0))

\* C12 as stated: when ctx expires before both waits of Shutdown are over,
\* every raw connection in the tracking set is closed and Shutdown gives up
\* the waits for trackWG and serveWG.
C12_ShutdownUnderExpiry ==
    /\ CloseConnsClosesAll
    /\ WaitsAbandoned

\* The preface of connection c has been read: a prior-knowledge request
\* was detected, the hijack succeeded and io.ReadFull has returned.
PrefaceRead(c) ==
    /\ hreq[c] = PriRequest
    /\ rawConn[c] # "none"
    /\ hpc[c] \in {"initreturn", "serving", "aborted", "done"}

\* C13: once the preface of a hijacked prior-knowledge connection is read,
\* ServeConn of the HTTP/2 engine is called exactly if the six bytes were
\* "SM\r\n\r\n"; after any other or shorter sequence the raw connection is
\* closed, the handler ends with the abort panic, and neither the HTTP/2
\* engine nor the fallback handler gets the request.
C13_PrefaceCheck ==
    \A c \in H2Conns : PrefaceRead(c) =>
        /\ fbReq[c] = NoRequest
        /\ IF hbuf[c] = expectedBody
             THEN herr[c] = "none" /\ hpc[c] \in {"initreturn", "serving", "done"}
             ELSE /\ herr[c] # "none"
                  /\ rawConn[c] = "closed"
                  /\ ~filled[c]
                  /\ hpc[c] \in {"initreturn", "aborted"}

C13_Witness ==
    \E c, d \in H2Conns :
        /\ PrefaceRead(c) /\ hbuf[c] = expectedBody /\ hpc[c] = "serving"
        /\ PrefaceRead(d) /\ Len(hbuf[d]) = Len(expectedBody)
        /\ hbuf[d] # expectedBody /\ hpc[d] = "aborted"

\* ServeHTTP has taken the upgrade path for connection c.
OnUpgradePath(c) ==
    \/ hpc[c] \in {"init", "hijack", "preface", "failed", "initreturn", "serving",
                   "aborted"}
    \/ hpc[c] = "done" /\ fbReq[c] = NoRequest

\* C14: ServeHTTP takes the upgrade path exactly for a request with method
\* PRI, no header, path * and protocol HTTP/2.0; any other request is given
\* to the fallback handler once and as it came, and neither the tracking
\* set nor trackWG or serveWG changes for it.
C14_Detection ==
    /\ [](\A c \in H2Conns : hpc[c] # "idle" =>
            LET r == hreq[c] IN
            IF r.method = "PRI" /\ r.headers = 0 /\ r.path = "*" /\ r.proto = "HTTP/2.0"
              THEN OnUpgradePath(c)
              ELSE /\ ~OnUpgradePath(c)
                   /\ fbReq[c] = r
                   /\ conns[c] = "absent")
    /\ [][\A c \in H2Conns :
            /\ fbReq'[c] # fbReq[c] => fbReq[c] = NoRequest
            /\ hpc'[c] # hpc[c] /\ (hpc'[c] = "fallback" \/ hpc[c] = "fallback")
                  => UNCHANGED <<conns, trackWG, serveWG>>]_vars

C14_Witness ==
    \E c, d \in H2Conns :
        /\ hreq[c] = [PriRequest EXCEPT !.headers = 1]
        /\ hpc[c] = "done" /\ fbReq[c] = hreq[c]
        /\ hreq[d] = PriRequest /\ hpc[d] = "serving"

\* C18: Server.Run returns only after every runner has returned, then the
\* count of connWG was seen at zero, then (with cleartext HTTP/2) Shutdown
\* of the h2c handler has returned, then Stop of the abortable handler has
\* returned; and the stopped flag of that handler is not set before the
\* first three are done.
C18_OrchestratorOrdering ==
    /\ [](runPc = "returned" =>
            /\ \A r \in Runners : rpc[r] = "done"
            /\ cleartext => shPc = "returned"
            /\ stopPc = "returned")
    /\ [](stopped \/ stopPc # "idle" =>
            /\ \A r \in Runners : rpc[r] = "done"
            /\ cleartext => shPc = "returned")
    /\ [](shPc # "idle" => cleartext /\ \A r \in Runners : rpc[r] = "done")
    /\ [][/\ shPc = "idle" /\ shPc' # "idle" => connWG = 0
          /\ stopPc = "idle" /\ stopPc' # "idle" => connWG = 0
          /\ runPc # "connwait" /\ runPc' = "connwait" =>
                \A r \in Runners : rpc[r] = "done"]_vars

\* Run has returned with cleartext HTTP/2 enabled after the runners served
\* a connection: all four steps have taken place.
C18_Witness ==
    /\ runPc = "returned"
    /\ cleartext /\ shPc = "returned" /\ nHooks = 1
    /\ stopPc = "returned" /\ stopped
    /\ \A r \in Runners : rpc[r] = "done" /\ listenErr[r] = "none"
    /\ \E t \in Tasks : tpc[t] = "returned"

\* C20 as stated: connsMu and the lock of the abortable handler are held
\* only while the map, the flag and the counters are changed: closeConns
\* does not call Close on a connection while it holds connsMu (-1 is its
\* mark as holder), and no call enters the next handler while it holds mu.
C20_LockDiscipline ==
    [][/\ toClose' # toClose /\ toClose' \subseteq toClose => connsMu # -1
       /\ \A t \in Tasks : tpc[t] # "inner" /\ tpc'[t] = "inner" => mu # t]_vars

\* The connections reported new and not yet reported hijacked or closed.
ReportedOpen ==
    {c \in H1Conns : cstate[c] \in {"new", "active", "late", "idle", "shut",
                                    "forced", "forcedActive", "forcedLate"}}

\* C19: s.connWG goes up once for a connection reported new and down once,
\* on the first report of hijacked or closed (after which nothing more is
\* reported for it); so the count is never negative and is the number of
\* connections reported new and not yet reported hijacked or closed.
C19_TrackerCount ==
    /\ [](connWG >= 0 /\ connWG = Cardinality(ReportedOpen))
    /\ [][\A c \in H1Conns :
            /\ cstate[c] \in {"hijacked", "closed"} => cstate'[c] = cstate[c]
            /\ c \notin ReportedOpen /\ c \in ReportedOpen' => connWG' = connWG + 1
            /\ c \in ReportedOpen /\ c \notin ReportedOpen' =>
                  cstate'[c] \in {"hijacked", "closed"} /\ connWG' = connWG - 1]_vars

\* A connection was reported new and then hijacked, every TCP runner has
\* returned and the count is back at zero.
C19_Witness ==
    /\ connWG = 0
    /\ \E c \in H1Conns : cstate[c] = "hijacked"
    /\ \A r \in TCPRunners : rpc[r] = "done"

\* C15: a TCP runner whose Listen succeeded calls s.h.Close() once, after
\* the function given to Do has completed (run by itself or by another
\* runner, ended gracefully or by expiry), and before it closes its
\* listener and takes the error of its serve loop; the call leaves no
\* connection in the engine's set.
C15_ForceCloseAfterDo ==
    /\ [](\A r \in TCPRunners :
            /\ nForce[r] <= 1
            /\ nForce[r] = 1 <=> listenErr[r] = "none" /\ rpc[r] \in {"lnclose", "done"}
            /\ nForce[r] = 1 => once["tcp"] = "done")
    /\ [][\A r \in TCPRunners :
            /\ nForce'[r] # nForce[r] =>
                  once["tcp"] = "done" /\ rpc[r] = "close" /\ ActiveConn' = {}
            /\ rpc[r] # "done" /\ rpc'[r] = "done" /\ listenErr'[r] = "none" =>
                  nForce[r] = 1 /\ lnState'[r] = "closed" /\ serve[r] = "sent"]_vars

\* Both TCP runners have returned after Shutdown ended gracefully, one ran
\* the function given to Do and the other skipped it, and each has called
\* s.h.Close() once.
C15_Witness ==
    /\ h1sh = "nil"
    /\ ~ctxDone
    /\ nShutdown["tcp"] = 1
    /\ \A r \in TCPRunners : rpc[r] = "done" /\ nForce[r] = 1
    /\ \E c \in H1Conns : cstate[c] = "closed"

\* Connections of the engine are closed by s.h.Close() only once ctx is
\* done.
ForcedOnlyOnExpiry ==
    [][\A c \in H1Conns :
          cstate'[c] # cstate[c] /\ cstate'[c] \in {"forced", "forcedActive", "forcedLate"}
            => ctxDone]_vars

\* Once every TCP runner has returned, no connection the serve loops
\* accepted is open in the hands of the engine.
NoneLeftOpen ==
    []((\A r \in TCPRunners : rpc[r] = "done") =>
          \A c \in H1Conns : cstate[c] \notin {"accepted", "new", "active", "late", "idle"})

\* C16 as stated: a connection accepted while the shutdown starts is either
\* served within the graceful window or closed by force once ctx is done,
\* in every order of Accept, the report of the new state, Shutdown and
\* Close; none is left open.
C16_ShutdownRace ==
    /\ NoneLeftOpen
    /\ ForcedOnlyOnExpiry

\* C17: a handler call that was in progress when the shutdown began (state
\* "active") does not have its connection closed by force unless ctx is
\* done, and Run goes on to stop the abortable handler, and returns, only
\* when no handler call of a connection of the engine is in progress.
C17_GracefulCompletion ==
    /\ \A c \in H1Conns : cstate[c] = "forcedActive" => ctxDone
    /\ (stopped \/ stopPc # "idle" \/ runPc \in {"stop", "returned"}) =>
          \A c \in H1Conns : ~InHandler(c)

\* The ready callback has returned, Shutdown of the engine polls while a
\* handler call that began before is in progress, and ctx is not done.
C17_Witness ==
    /\ cb = "returned"
    /\ ~ctxDone
    /\ once["tcp"] = "running"
    /\ h1sh \in {"poll", "poll19"}
    /\ \E c \in H1Conns : cstate[c] = "active"

\* The errors in the value the runner returned.
Returned(r) == {ret[r][i] : i \in 1..Len(ret[r])}

\* C21: when a runner has returned after its serve loop ended, the error of
\* the serve loop is absent from the returned error if it is a shutdown
\* sentinel of the runner's engine (http.ErrServerClosed for TCP;
\* quic.ErrServerClosed or http.ErrServerClosed for QUIC) and is part of
\* the returned error otherwise.
C21_ServeErrorNormalized ==
    \A r \in Runners :
        rpc[r] = "done" /\ serveErr[r] # "unset" =>
            IF serveErr[r] \in Sentinels(Family(r))
              THEN serveErr[r] \notin Returned(r)
              ELSE serveErr[r] \in Returned(r)

\* A QUIC runner whose serve loop ended with http.ErrServerClosed returned
\* the error of its callback alone.
C21_Witness ==
    \E r \in UDPRunners :
        /\ rpc[r] = "done"
        /\ serveErr[r] = "http.ErrServerClosed"
        /\ ret[r] = <<"callback">>

\* The errors a runner that got past Listen has to report: the callback
\* error, the normalised serve error, the listener-close error and, for
\* QUIC, the packet-socket close error.
Contributing(r) ==
    ({cbErr[r], NormalizeServeError(Family(r), serveErr[r]), closeErr[r]}
        \cup (IF Family(r) = "udp" THEN {pcErr[r]} ELSE {})) \ {"nil"}

\* C22: the error a runner returns after its shutdown sequence contains
\* every non-nil error among the callback error, the normalised serve
\* error, the listener-close error and (QUIC) the packet-socket close
\* error, each once, and it is nil exactly when all of them are nil.
C22_ErrorAggregation ==
    \A r \in Runners :
        rpc[r] = "done" /\ listenErr[r] = "none" =>
            /\ Returned(r) = Contributing(r)
            /\ Len(ret[r]) = Cardinality(Contributing(r))
            /\ (ret[r] = <<>>) <=> (Contributing(r) = {})

\* A QUIC runner returned all four of its errors together.
C22_Witness ==
    \E r \in UDPRunners :
        /\ rpc[r] = "done"
        /\ ret[r] = <<"callback", "accept", "close", "pcclose">>

\* C23: when a runner has returned after its shutdown sequence, every
\* error that a Shutdown or Close call on the engine returned during that
\* sequence is part of the error the runner returned, and the sequence was
\* carried out in full: the listener is closed, a TCP runner has
\* force-closed the engine, a QUIC runner has closed its packet socket.
C23_ShutdownErrorsReported ==
    \A r \in Runners :
        rpc[r] = "done" /\ listenErr[r] = "none" =>
            /\ engErr[r] \subseteq Returned(r)
            /\ lnState[r] = "closed"
            /\ Family(r) = "tcp" => nForce[r] = 1
            /\ Family(r) = "udp" => pcState[r] = "closed"

\* C24: a runner whose Listen (or, for QUIC, quic.ListenEarly) failed has
\* returned that error and nothing else, has started no serve goroutine and
\* has not called the callback; a runner that has called the callback has
\* its listener bound and its serve goroutine started.
C24_ListenFailure ==
    \A r \in Runners :
        /\ listenErr[r] # "none" =>
              /\ rpc[r] = "done"
              /\ ret[r] = <<listenErr[r]>>
              /\ serve[r] = "none"
              /\ lnState[r] = "none"
              /\ cbErr[r] = "unset"
        /\ rpc[r] = "callback" \/ cbErr[r] # "unset" =>
              /\ listenErr[r] = "none"
              /\ lnState[r] # "none"
              /\ serve[r] # "none"

\* A QUIC runner returned the error of quic.ListenEarly after another
\* runner had entered its callback.
C24_Witness ==
    /\ \E r \in UDPRunners :
        /\ listenErr[r] = "early"
        /\ rpc[r] = "done"
        /\ ret[r] = <<"early">>
    /\ \E q \in TCPRunners : rpc[q] = "callback"

\* C28: whenever the error of a runner's serve loop is available on errc
\* (or has been received), the context given to the runner's callback has
\* been cancelled; and the runner has cancelled that context only if its
\* serve loop has returned.
C28_CancelOnServeExit ==
    \A r \in Runners :
        /\ ErrcFull(r) => fgDone[r]
        /\ rpc[r] \in {"done"} /\ listenErr[r] = "none" => fgDone[r]
        /\ fgDone[r] => serve[r] \notin {"none", "running"}

\* The serve loop of a runner has returned and fgctx is cancelled while the
\* runner is still in its callback, ctx is live and the error has not yet
\* been sent.
C28_Witness ==
    \E r \in Runners :
        /\ serve[r] = "cancelled"
        /\ fgDone[r]
        /\ rpc[r] = "callback"
        /\ ~ctxDone

\* C27: in the step that ends gracefulShutdown, if s.h.Shutdown(ctx) was
\* ended by the expiry of ctx then every connection of the engine is
\* force-closed by the step, and if Shutdown returned nil the step closes
\* nothing.
C27_Escalation ==
    [][\A r \in TCPRunners :
          rpc[r] = "shutwait" /\ rpc'[r] = "close" =>
              /\ h1sh = "err" => cstate' = ForceClosed /\ lnState' = EngineClosesListeners
              /\ h1sh = "nil" => cstate' = cstate /\ lnState' = lnState]_vars

\* gracefulShutdown has ended after an expired Shutdown and has force-closed
\* a connection whose handler was running; no runner has yet made its own
\* Close call.
C27_Witness ==
    /\ h1sh = "err"
    /\ \E r \in TCPRunners : rpc[r] = "close"
    /\ \A r \in TCPRunners : nForce[r] = 0
    /\ \E c \in H1Conns : cstate[c] = "forcedActive"

\* C29: in the step in which a TCP runner makes its Close call on the
\* engine after Do, the runner's serve loop has returned and holds no
\* accepted connection that the engine does not yet track, and after the
\* step the engine tracks no connection.
C29_ServeReturnedAtForceClose ==
    [][\A r \in TCPRunners :
          rpc[r] = "close" /\ rpc'[r] = "lnclose" =>
              /\ serve[r] # "running"
              /\ pend[r] = 0
              /\ \A c \in H1Conns : cstate'[c] \notin {"new", "active", "late", "idle"}]_vars

\* C25: once grpcMux.ServeHTTP was called with a request, exactly one
\* handler call was made: to g if the request's protocol major version is 2
\* and its Content-Type value begins with application/grpc, to h otherwise.
C25_GrpcRouting ==
    gmPc # "idle" =>
        LET grpc == /\ gmReq.major = 2
                    /\ Len(gmReq.ct) >= 2
                    /\ gmReq.ct[1] = "application/"
                    /\ gmReq.ct[2] = "grpc"
        IN /\ hCalls + gCalls = 1
           /\ gCalls = 1 <=> grpc
           /\ hCalls = 1 <=> ~grpc

\* An HTTP/2 request with Content-Type application/grpc+proto was served by
\* g alone.
C25_Witness ==
    /\ gmPc = "returned"
    /\ gmReq = [major |-> 2, ct |-> <<"application/", "grpc", "+proto">>]
    /\ gCalls = 1
    /\ hCalls = 0

\* The rendering of strconv.Quote with single quotes as delimiters: a
\* backslash before each single quote, none before a double quote, the
\* other bytes as strconv.Quote renders them.
RECURSIVE SingleQuotedBody(_)
SingleQuotedBody(str) ==
    IF str = <<>> THEN <<>>
    ELSE (CASE Head(str) = "sq" -> <<"bs", "sq">>
            [] Head(str) = "dq" -> <<"dq">>
            [] Head(str) = "bs" -> <<"bs", "bs">>
            [] OTHER -> <<Head(str)>>)
            \o SingleQuotedBody(Tail(str))

\* C26: a call of quoteSingle ends by returning (it does not fail), and the
\* string returned is the strconv.Quote rendering of the argument with
\* single quotes as delimiters, a backslash before each single quote and
\* none before a double quote.
C26_QuoteSingle ==
    qsPc \notin {"idle", "scanned"} =>
        /\ qsPc = "returned"
        /\ qsOut = <<"sq">> \o SingleQuotedBody(qsIn) \o <<"sq">>

\* C30: a notification of the HTTP/2 engine for a connection served
\* through H2C calls setTracked and nothing else and leaves s.connWG as it
\* was; a notification of the HTTP/1 engine calls connTrack first and then
\* the user's ConnState hook if one is configured, and nothing else.
C30_HookRouting ==
    [][hkN' # hkN =>
          IF hkFrom' = "h2"
            THEN /\ hkCalls' = <<"setTracked">>
                 /\ hkWG' = hkWG
            ELSE /\ hkCalls' = IF hkUser = "set" THEN <<"connTrack", "user">>
                                               ELSE <<"connTrack">>]_vars

\* With a user hook configured, a connection was hijacked for H2C (the
\* count is back to zero) and the HTTP/2 engine then reported it closed:
\* setTracked alone was called.
C30_Witness ==
    /\ hkUser = "set"
    /\ hkFrom = "h2"
    /\ hkCalls = <<"setTracked">>
    /\ hkWG = 0
    /\ \E c \in H2Conns :
          hkConn[c] = "hijacked" /\ hkH2[c] = "closed" /\ hkTracked[c]

\* C31 as stated: once Run has built the engine, the "h2" entry of
\* h1.TLSNextProto is the function that serves HTTP/2, whatever table the
\* user supplied; the user's other entries are in the table; and the user's
\* own table is as it was.
C31_H2Reserved ==
    tpPc = "done" =>
        /\ tpTable[NextProtoTLS] = "h2server"
        /\ \A k \in ProtoNames \ {NextProtoTLS} :
              tpUser0[k] # "absent" => tpTable[k] = tpUser0[k]
        /\ tpUser = tpUser0

\* C32: the bytes the Read calls of an upgraded connection have returned,
\* followed by what is still to be read (the rest of the preface constant,
\* the buffer of rw, the bytes the connection has yet to deliver), are the
\* client preface constant followed by the bytes the client sent after the
\* preface tail: nothing is lost, duplicated or reordered; and when Read
\* has returned io.EOF all of it has been returned.
C32_ReadsPrefaceThenRest ==
    rdPc = "open" =>
        /\ rdGot \o Drop(ClientPreface, rdPos) \o rdBuf \o rdWire
              = ClientPreface \o rdRest
        /\ rdRet[2] = "EOF" => rdGot = ClientPreface \o rdRest
        /\ Len(rdGot) < Len(ClientPreface) => rdPos = Len(rdGot)

\* Reads of several sizes have returned the preface and two more bytes,
\* one of which was not in the buffer when the connection was upgraded,
\* and then io.EOF.
C32_Witness ==
    /\ rdPc = "open"
    /\ Len(rdRest) >= 2
    /\ rdRet = <<0, "EOF">>
    /\ rdGot = ClientPreface \o rdRest

\* C33: as long as every Write has returned a nil error, the buffered
\* writer holds no byte after a Write and the connection has taken every
\* byte written, in order; a Write whose flush fails returns 0 and the
\* error of the flush.
C33_WriteFlushes ==
    wrPc = "open" =>
        /\ wrOk => wrW.buf = <<>> /\ wrOut = wrAll /\ wrW.err = "none"
        /\ wrW.err # "none" => wrRet = <<0, wrW.err>>
        /\ wrRet[2] # "none" => wrRet[1] = 0

\* A Write longer than the buffer has returned nil with all its bytes on
\* the connection, the connection has broken, and a later Write has
\* returned 0 and the error.
C33_Witness ==
    /\ wrPc = "open"
    /\ wrBroken
    /\ Len(wrOut) > BufSize
    /\ Len(wrAll) > Len(wrOut)
    /\ wrOut = Take(wrAll, Len(wrOut))
    /\ wrRet = <<0, "broken">>

\* The configuration the socket of TLS / OptionalTLS uses.
SocketConfig == IF tlUses = "clone" THEN tlClone ELSE tlCaller

\* C34: a socket built from a configuration whose NextProtos is nil uses a
\* copy whose NextProtos is ["h2"] and whose other fields are the caller's;
\* one built from a configuration whose NextProtos is set (an empty list
\* included) uses the caller's object; the caller's object is never
\* changed, and the listener Listen returns uses the socket's
\* configuration.
C34_NextProtosDefault ==
    tlPc # "idle" =>
        /\ tlCaller = tlCaller0
        /\ IF tlCaller0.protosNil
             THEN /\ tlUses = "clone"
                  /\ tlCloned
                  /\ SocketConfig = [tlCaller0 EXCEPT !.protosNil = FALSE,
                                                      !.protos = <<"h2">>]
             ELSE /\ tlUses = "caller"
                  /\ SocketConfig.protos = tlCaller0.protos
        /\ tlPc = "listening" => tlLn[2] = tlUses

\* An optional socket built from a configuration without NextProtos
\* listens with the copy.
C34_Witness ==
    /\ tlPc = "listening"
    /\ tlCaller0.protosNil
    /\ tlCaller.protosNil
    /\ tlLn = <<"acceptor", "clone">>
    /\ tlClone.protos = <<"h2">>

\* C35: after any calls of addPending, setTracked and removeConn, trackWG
\* is the number of entries of h.conns that are not marked tracked, serveWG
\* is the number of entries, and neither is negative.
C35_CounterInvariant ==
    /\ trackWG = Cardinality({c \in H2Conns : conns[c] = "pending"})
    /\ serveWG = Cardinality({c \in H2Conns : conns[c] # "absent"})
    /\ trackWG >= 0
    /\ serveWG >= 0

\* Two connections were registered, one was marked tracked and the other
\* removed while pending.
C35_Witness ==
    /\ Len(trkLog) = 4
    /\ \E c, d \in H2Conns :
          /\ c # d
          /\ conns[c] = "tracked"
          /\ conns[d] = "absent"
          /\ trkLog[3] = <<"setTracked", c>>
          /\ trkLog[4] = <<"removeConn", d>>
          /\ trkLog[1][1] = "addPending" /\ trkLog[2][1] = "addPending"

\* The last call logged is `method` on connection c.
JustCalled(method, c) ==
    /\ Len(trkLog') = Len(trkLog) + 1
    /\ trkLog'[Len(trkLog')] = <<method, c>>

\* C36: a call of setTracked for a pending entry marks it tracked and
\* decrements trackWG, leaving serveWG; a call for an entry already
\* tracked, or for a connection that is not in the set (never registered,
\* or removed), changes neither the set nor a counter. So trackWG is
\* decremented by setTracked at most once per registered connection.
C36_SetTrackedOnce ==
    [][\A c \in H2Conns :
          JustCalled("setTracked", c) =>
              /\ serveWG' = serveWG
              /\ IF conns[c] = "pending"
                   THEN /\ conns' = [conns EXCEPT ![c] = "tracked"]
                        /\ trackWG' = trackWG - 1
                   ELSE /\ conns' = conns
                        /\ trackWG' = trackWG
              /\ trackWG' # trackWG =>
                    \A i \in 1..Len(trkLog) :
                        trkLog[i] = <<"setTracked", c>> =>
                            \A j \in 1..i : trkLog[j] # <<"addPending", c>>]_vars

\* setTracked was called twice for a registered connection, then for a
\* connection never registered: the entry is tracked and trackWG was
\* decremented once.
C36_Witness ==
    /\ Len(trkLog) = 4
    /\ \E c, d \in H2Conns :
          /\ c # d
          /\ trkLog = <<<<"addPending", c>>, <<"setTracked", c>>,
                        <<"setTracked", c>>, <<"setTracked", d>>>>
          /\ conns[c] = "tracked"
          /\ conns[d] = "absent"
          /\ trackWG = 0
          /\ serveWG = 1

\* C37 as stated: whenever closeConns runs, every entry of the tracking
\* set has its raw connection filled in: no placeholder that the hijack has
\* yet to fill is in the set it ranges over.
C37_ClosesOnlyFilled ==
    watcher = "closing" =>
        \A c \in H2Conns : conns[c] # "absent" => filled[c] /\ hpc[c] # "preface"

\* C38: a TCP runner is past s.d.Do (about to call s.h.Close(), or having
\* called it) only when the function given to Do, run by whichever runner
\* came first, has completed: its s.h.Shutdown(ctx) has returned. While
\* that function runs, no runner of the family has called s.h.Close(), and
\* every other runner that has reached Do waits in it.
C38_ForceCloseAfterSharedStep ==
    \A r \in TCPRunners :
        /\ (rpc[r] \in {"close", "lnclose"} \/ nForce[r] > 0) =>
              once["tcp"] = "done" /\ h1sh \in {"nil", "err"} /\ nShutdown["tcp"] = 1
        /\ once["tcp"] = "running" =>
              /\ nForce[r] = 0
              /\ listenErr[r] = "none" => rpc[r] \in {"listen", "callback", "once", "shutwait"}

\* One runner executes the shutdown step (Shutdown polls a connection
\* whose handler is running) while another has arrived at Do and has not
\* called s.h.Close().
C38_Witness ==
    \E r, q \in TCPRunners :
        /\ rpc[r] = "shutwait"
        /\ rpc[q] = "once"
        /\ once["tcp"] = "running"
        /\ h1sh \in {"poll", "poll19"}
        /\ nForce[q] = 0
        /\ \E c \in H1Conns : cstate[c] = "active"

\* C39 as stated: when the Run of a runner whose socket Listen succeeded has
\* returned (the QUIC early-listener setup may have failed), the listener
\* it wrapped is closed, a QUIC runner's packet socket is closed, and the
\* serve goroutine it started has ended.
C39_ResourcesReleased ==
    \A r \in Runners :
        rpc[r] = "done" /\ listenErr[r] # "listen" =>
            /\ lnState[r] # "open"
            /\ Family(r) = "udp" => pcState[r] = "closed"
            /\ serve[r] \in {"none", "sent"}

\* C40 as stated, for the wait that Run makes in h2c.Shutdown(ctx): with
\* ctx eventually done and every handler call ending, Shutdown, and with it
\* Run, eventually returns, whatever upgrade attempts failed or were in
\* progress when it was called.
C40_RunTerminates ==
    (shPc = "called") ~> (shPc = "returned")

GateTypeOK ==
    /\ mu \in {0, -1} \cup Tasks
    /\ wg \in Int
    /\ stopped \in BOOLEAN
    /\ tpc \in [Tasks -> TaskPcs]
    /\ tstopped \in [Tasks -> BOOLEAN]
    /\ tpanic \in [Tasks -> PanicValues]
    /\ stopPc \in StopPcs
    /\ exited \in BOOLEAN
    /\ exitCode \in {0, 2}
=============================================================================
